---- MODULE Spec2Model ----
(***************************************************************************)
(* Model of sonta_kun: the task-diff classifier (DiffAnalyzer.analyze and  *)
(* its helpers in diff_analyzer.py).  Strings are sequences of one-        *)
(* character strings, so that lower(), strip(), substring containment and  *)
(* difflib.SequenceMatcher.ratio() are computed character by character.    *)
(***************************************************************************)
EXTENDS Integers, Sequences, FiniteSets, TLC

VARIABLES
    pc,                 \* position of the analyze call: idle, start, loop, done, error
    current,            \* argument current: TodoList.items
    previous,           \* argument previous: Optional[TodoList]
    result,             \* local result: DiffResult
    previous_tasks,     \* local dict name -> TodoItem, in insertion order
    matched_previous,   \* local set of matched previous names
    idx,                \* position of the for loop over current.items
    prev_item,          \* local prev_item of the last iteration
    similar_task,       \* local similar_task of the last iteration
    change,             \* local change of the last iteration
    result_ref,         \* identity of the DiffResult object that result names
    kept,               \* the report of an earlier call that the caller still holds
    diff,               \* a DiffResult whose to_text and get_summary are called
    text,               \* what diff.to_text() returned
    summary,            \* what diff.get_summary() returned
    reports_file,       \* content of reports.json in the storage directory, if it exists
    query,              \* arguments of the last get_latest_report call
    latest,             \* what that call returned
    saved,              \* the reports that were given to save_report, in order
    report_list,        \* the last get_reports call: its arguments and what it returned
    _profiles,          \* ProfileManager._profiles: dict name -> TargetProfile, in order
    profiles_file,      \* content of profiles.json in the storage directory, if it exists
    last_op,            \* the last call on the manager: its arguments, what it
                        \* returned and the profiles and the file before it
    reopened,           \* _profiles of a second ProfileManager made on the directory
    _max_summary_chars, \* OutputFormatter._max_summary_chars
    formatted,          \* the last call on the formatter: its arguments and what
                        \* it returned
    generation,         \* the last ReportGenerator.generate call: its arguments,
                        \* how the Bedrock call ended, what generate returned or
                        \* raised, and the reports file before the call
    writers,            \* the save_report calls of two processes on one reports
                        \* file: position, local list reports, report to save
    file_size,          \* bytes of reports.json on disk while handles opened for
                        \* writing overlap
    written             \* the processes whose json.dump reached the disk, in order

analyzerVars == <<pc, current, previous, result, previous_tasks, matched_previous,
                  idx, prev_item, similar_task, change, result_ref, kept>>

renderVars == <<diff, text, summary>>

storageVars == <<reports_file, query, latest, saved, report_list>>

profileVars == <<_profiles, profiles_file, last_op, reopened>>

formatterVars == <<_max_summary_chars, formatted>>

generatorVars == <<generation>>

raceVars == <<writers, file_size, written>>

otherVars == <<renderVars, storageVars, profileVars, formatterVars, generatorVars, raceVars>>

vars == <<analyzerVars, otherVars>>

-----------------------------------------------------------------------------
(* Bounds of the enumerated inputs *)

MaxCur == 2
MaxPrev == 2

\* entries of the Completed, New, Modified and Removed bucket of a rendered report
MaxListed == 2
\* entries of its Unchanged bucket
MaxUnchanged == 6

\* reports saved in one storage directory
MaxReports == 3

-----------------------------------------------------------------------------
(* Python values *)

\* Optional[str] = None
NoneStr == <<"None">>

\* TodoItem(task, status); the other fields are never read by the classifier
TodoItem(task, status) == [task |-> task, status |-> status]

\* a value for a local that holds no TodoItem yet
NoItem == [task |-> NoneStr, status |-> NoneStr]

\* TaskChange(task_name, change_type, previous_status=None, current_status=None, details="")
TaskChange(task_name, change_type, previous_status, current_status, details) ==
    [task_name |-> task_name, change_type |-> change_type,
     previous_status |-> previous_status, current_status |-> current_status,
     details |-> details]

\* a value for a local that holds no TaskChange yet
NoChange == TaskChange(NoneStr, "none", NoneStr, NoneStr, <<>>)

\* DiffResult(): five empty lists
DiffResult ==
    [completed_tasks |-> <<>>, new_tasks |-> <<>>, modified_tasks |-> <<>>,
     unchanged_tasks |-> <<>>, removed_tasks |-> <<>>]

\* previous is None
NoneList == [present |-> FALSE, items |-> <<>>]

\* TodoList(items=...)
TodoList(items) == [present |-> TRUE, items |-> items]

-----------------------------------------------------------------------------
(* str.lower(), str.strip(), substring containment *)

UpperLetters == <<"A","B","C","D","E","F","G","H","I","J","K","L","M",
                  "N","O","P","Q","R","S","T","U","V","W","X","Y","Z">>
LowerLetters == <<"a","b","c","d","e","f","g","h","i","j","k","l","m",
                  "n","o","p","q","r","s","t","u","v","w","x","y","z">>

LowerChar(c) ==
    IF \E k \in 1..Len(UpperLetters) : UpperLetters[k] = c
    THEN LowerLetters[CHOOSE k \in 1..Len(UpperLetters) : UpperLetters[k] = c]
    ELSE c

Lower(s) == [k \in 1..Len(s) |-> LowerChar(s[k])]

Whitespace == {" ", "\t", "\n"}

Strip(s) ==
    LET keep == {k \in 1..Len(s) : s[k] \notin Whitespace}
    IN  IF keep = {} THEN <<>>
        ELSE LET lo == CHOOSE k \in keep : \A m \in keep : k <= m
                 hi == CHOOSE k \in keep : \A m \in keep : k >= m
             IN  SubSeq(s, lo, hi)

\* s[:n], n of either sign
Slice(s, n) ==
    IF n >= 0
    THEN SubSeq(s, 1, IF n < Len(s) THEN n ELSE Len(s))
    ELSE SubSeq(s, 1, IF Len(s) + n > 0 THEN Len(s) + n ELSE 0)

\* sub in s
Contains(s, sub) ==
    \E k \in 1..(Len(s) - Len(sub) + 1) : SubSeq(s, k, k + Len(sub) - 1) = sub

-----------------------------------------------------------------------------
(* difflib.SequenceMatcher(None, a, b).ratio(); no junk, and autojunk only  *)
(* acts on sequences of 200 or more elements.  Windows are half-open,       *)
(* [alo, ahi) and [blo, bhi), on 1-based positions.                         *)

RECURSIVE RunLen(_, _, _, _, _, _)
\* length of the common run starting at a[i], b[j] inside the window
RunLen(a, b, i, ahi, j, bhi) ==
    IF i < ahi /\ j < bhi /\ a[i] = b[j]
    THEN 1 + RunLen(a, b, i + 1, ahi, j + 1, bhi)
    ELSE 0

\* the longest matching block; of those, earliest in a, then earliest in b
FindLongestMatch(a, b, alo, ahi, blo, bhi) ==
    LET starts == (alo..(ahi - 1)) \X (blo..(bhi - 1))
        size(p) == RunLen(a, b, p[1], ahi, p[2], bhi)
        hits == {p \in starts : size(p) > 0}
    IN  IF hits = {} THEN <<alo, blo, 0>>
        ELSE LET best == CHOOSE p \in hits :
                            \A q \in hits :
                                \/ size(p) > size(q)
                                \/ size(p) = size(q) /\ p[1] < q[1]
                                \/ size(p) = size(q) /\ p[1] = q[1] /\ p[2] <= q[2]
             IN  <<best[1], best[2], size(best)>>

RECURSIVE MatchCount(_, _, _, _, _, _)
\* sum of the sizes of get_matching_blocks()
MatchCount(a, b, alo, ahi, blo, bhi) ==
    IF alo >= ahi \/ blo >= bhi THEN 0
    ELSE LET m == FindLongestMatch(a, b, alo, ahi, blo, bhi)
             i == m[1]
             j == m[2]
             k == m[3]
         IN  IF k = 0 THEN 0
             ELSE k + MatchCount(a, b, alo, i, blo, j)
                    + MatchCount(a, b, i + k, ahi, j + k, bhi)

\* ratio() as a fraction: 2.0 * matches / length, and 1.0 when length is 0
Ratio(a, b) ==
    LET length == Len(a) + Len(b)
    IN  IF length # 0
        THEN [num |-> 2 * MatchCount(a, b, 1, Len(a) + 1, 1, Len(b) + 1), den |-> length]
        ELSE [num |-> 1, den |-> 1]

\* a variant that also holds for equal ratios
RatioGT_OrEqual(r, s) == r.num * s.den >= s.num * r.den

\* r > s
RatioGT(r, s) == r.num * s.den > s.num * r.den
RatioGE(r, s) == r.num * s.den >= s.num * r.den

-----------------------------------------------------------------------------
(* DiffAnalyzer *)

\* The characters outside ASCII, each named by its code point
KAN == "U+5B8C"
RYO == "U+4E86"
SUMI == "U+6E08"
SHIN == "U+9032"
KOU == "U+884C"
CHUU == "U+4E2D"
MI == "U+672A"
CHAKU == "U+7740"
SHU == "U+624B"

\* the literal of details in the completed branch of _compare_items
COMPLETED_DETAILS == <<"U+524D", "U+56DE", "U+304B", "U+3089", KAN, RYO>>

\* The task names of the enumerated calls: three similar names (ratios 0.8,
\* 0.6, 0.6) and one that is similar to none (ratios 0.57, 0, 0)
TaskNames ==
    { <<"a","b","c","d","e">>, <<"a","b","c","d","x">>,
      <<"a","b","c","y","z">>, <<"y","z">> }

IN_PROGRESS == <<SHIN, KOU, CHUU>>
NOT_STARTED == <<MI, CHAKU, SHU>>
COMPLETED == <<KAN, RYO>>

\* statuses for the calls that compare one previous task with one current task
PairStatuses ==
    { <<>>, <<" ">>, IN_PROGRESS, NOT_STARTED, COMPLETED, COMPLETED \o <<" ">>,
      <<KAN>>, <<SUMI>>, <<"d","o","n","e">>, <<"D","o","n","e">>,
      <<"D","O","N","E">>, <<"f","i","n","i","s","h","e","d">>,
      <<"c","l","o","s","e","d","-","p","e","n","d","i","n","g">> }

COMPLETED_STATUSES ==
    << <<KAN, RYO>>, <<"d","o","n","e">>, <<"c","l","o","s","e","d">>,
       <<"f","i","n","i","s","h","e","d">>, <<KAN>>, <<SUMI>> >>

\* a variant with the threshold at 0.5
SIMILARITY_THRESHOLD_Half == [num |-> 5, den |-> 10]

SIMILARITY_THRESHOLD == [num |-> 6, den |-> 10]

\* a variant that compares without lower-casing
_is_completed_CaseSensitive(status) ==
    IF status = <<>> \/ status = NoneStr THEN FALSE
    ELSE LET status_lower == Strip(status)
         IN  \E k \in 1..Len(COMPLETED_STATUSES) :
                 Contains(status_lower, COMPLETED_STATUSES[k])

_is_completed(status) ==
    IF status = <<>> \/ status = NoneStr THEN FALSE
    ELSE LET status_lower == Strip(Lower(status))
         IN  \E k \in 1..Len(COMPLETED_STATUSES) :
                 Contains(status_lower, COMPLETED_STATUSES[k])

\* _is_completed on the statuses of the enumerated calls, computed once
CompletedMemo == [status \in PairStatuses |-> _is_completed(status)]

\* a variant that enters a renamed task under its previous name
_compare_items_Renamed(prev, curr, task_renamed) ==
    LET prev_completed == CompletedMemo[prev.status]
        curr_completed == CompletedMemo[curr.status]
        name == IF task_renamed THEN prev.task ELSE curr.task
    IN  IF ~prev_completed /\ curr_completed
        THEN TaskChange(name, "completed", prev.status, curr.status, COMPLETED_DETAILS)
        ELSE IF prev.status # curr.status
        THEN TaskChange(name, "modified", prev.status, curr.status, <<>>)
        ELSE TaskChange(name, "unchanged", NoneStr, curr.status, <<>>)

\* a variant that compares the trimmed statuses
_compare_items_Trimmed(prev, curr, task_renamed) ==
    LET prev_completed == CompletedMemo[prev.status]
        curr_completed == CompletedMemo[curr.status]
    IN  IF ~prev_completed /\ curr_completed
        THEN TaskChange(curr.task, "completed", prev.status, curr.status,
                        COMPLETED_DETAILS)
        ELSE IF Strip(prev.status) # Strip(curr.status)
        THEN TaskChange(curr.task, "modified", prev.status, curr.status, <<>>)
        ELSE TaskChange(curr.task, "unchanged", NoneStr, curr.status, <<>>)

_compare_items(prev, curr, task_renamed) ==
    LET prev_completed == CompletedMemo[prev.status]
        curr_completed == CompletedMemo[curr.status]
    IN  IF ~prev_completed /\ curr_completed
        THEN TaskChange(curr.task, "completed", prev.status, curr.status,
                        COMPLETED_DETAILS)
        ELSE IF prev.status # curr.status
        THEN TaskChange(curr.task, "modified", prev.status, curr.status, <<>>)
        ELSE TaskChange(curr.task, "unchanged", NoneStr, curr.status, <<>>)

\* ratio() on the names of the enumerated calls, computed once
RatioMemo == [a \in TaskNames \cup {<<>>}, b \in TaskNames \cup {<<>>} |-> Ratio(a, b)]

RECURSIVE FindSimilarFrom_Strict(_, _, _, _, _, _)
\* a variant that accepts only a ratio above the threshold
FindSimilarFrom_Strict(task_name, keys, already_matched, k, best_match, best_ratio) ==
    IF k > Len(keys) THEN best_match
    ELSE LET prev_task == keys[k]
             ratio == RatioMemo[task_name, prev_task]
         IN  IF prev_task \in already_matched
             THEN FindSimilarFrom_Strict(task_name, keys, already_matched, k + 1,
                                         best_match, best_ratio)
             ELSE IF RatioGT(ratio, best_ratio) /\ RatioGT(ratio, [num |-> 6, den |-> 10])
             THEN FindSimilarFrom_Strict(task_name, keys, already_matched, k + 1,
                                         prev_task, ratio)
             ELSE FindSimilarFrom_Strict(task_name, keys, already_matched, k + 1,
                                         best_match, best_ratio)

RECURSIVE FindSimilarFrom(_, _, _, _, _, _)
\* the for loop of _find_similar_task from position k on
FindSimilarFrom(task_name, keys, already_matched, k, best_match, best_ratio) ==
    IF k > Len(keys) THEN best_match
    ELSE LET prev_task == keys[k]
             ratio == RatioMemo[task_name, prev_task]
         IN  IF prev_task \in already_matched
             THEN FindSimilarFrom(task_name, keys, already_matched, k + 1,
                                  best_match, best_ratio)
             ELSE IF RatioGT(ratio, best_ratio) /\ RatioGE(ratio, SIMILARITY_THRESHOLD)
             THEN FindSimilarFrom(task_name, keys, already_matched, k + 1,
                                  prev_task, ratio)
             ELSE FindSimilarFrom(task_name, keys, already_matched, k + 1,
                                  best_match, best_ratio)

\* a variant that also considers the names matched already
_find_similar_task_AnyName(task_name, keys, already_matched) ==
    FindSimilarFrom(task_name, keys, {}, 1, NoneStr, [num |-> 0, den |-> 1])

\* a variant that returns the name it was asked about
_find_similar_task_ReturnsQuery(task_name, keys, already_matched) ==
    IF FindSimilarFrom(task_name, keys, already_matched, 1, NoneStr,
                       [num |-> 0, den |-> 1]) # NoneStr
    THEN task_name
    ELSE NoneStr

_find_similar_task(task_name, keys, already_matched) ==
    FindSimilarFrom(task_name, keys, already_matched, 1, NoneStr, [num |-> 0, den |-> 1])

\* a variant that has no branch for unchanged tasks
_add_to_result_NoUnchanged(res, chg) ==
    IF chg.change_type = "completed"
    THEN [res EXCEPT !.completed_tasks = Append(@, chg)]
    ELSE IF chg.change_type = "modified"
    THEN [res EXCEPT !.modified_tasks = Append(@, chg)]
    ELSE res

_add_to_result(res, chg) ==
    IF chg.change_type = "completed"
    THEN [res EXCEPT !.completed_tasks = Append(@, chg)]
    ELSE IF chg.change_type = "modified"
    THEN [res EXCEPT !.modified_tasks = Append(@, chg)]
    ELSE IF chg.change_type = "unchanged"
    THEN [res EXCEPT !.unchanged_tasks = Append(@, chg)]
    ELSE res

\* keys of the dict, in insertion order
DictKeys(d) == [k \in 1..Len(d) |-> d[k].task]

DictHas(d, key) == \E k \in 1..Len(d) : d[k].task = key

\* d[key]
DictGet(d, key) == d[CHOOSE k \in 1..Len(d) : d[k].task = key]

\* a variant in which an old key keeps its item
DictPut_KeepFirst(d, item) == IF DictHas(d, item.task) THEN d ELSE Append(d, item)

\* d[item.task] = item: a new key goes last, an old key keeps its place
DictPut(d, item) ==
    IF DictHas(d, item.task)
    THEN [k \in 1..Len(d) |-> IF d[k].task = item.task THEN item ELSE d[k]]
    ELSE Append(d, item)

RECURSIVE BuildDict(_, _)
\* {item.task: item for item in items[1..n]}
BuildDict(items, n) ==
    IF n = 0 THEN <<>> ELSE DictPut(BuildDict(items, n - 1), items[n])

\* truth value of an Optional[str]
Truthy(s) == s # NoneStr /\ s # <<>>

\* a variant that leaves current_status at its default
NewTaskChange_NoStatus(item) == TaskChange(item.task, "new", NoneStr, NoneStr, <<>>)

\* TaskChange for a current task with no match
NewTaskChange(item) == TaskChange(item.task, "new", NoneStr, item.status, <<>>)

\* TaskChange for a previous task that no current task matched
RemovedTaskChange(item) == TaskChange(item.task, "removed", item.status, NoneStr, <<>>)

RECURSIVE RemovedFrom_All(_, _, _)
\* a variant that does not skip the matched names
RemovedFrom_All(d, matched, k) ==
    IF k > Len(d) THEN <<>>
    ELSE <<RemovedTaskChange(d[k])>> \o RemovedFrom_All(d, matched, k + 1)

RECURSIVE RemovedFrom(_, _, _)
\* the for loop over previous_tasks.items() from position k on
RemovedFrom(d, matched, k) ==
    IF k > Len(d) THEN <<>>
    ELSE IF d[k].task \notin matched
    THEN <<RemovedTaskChange(d[k])>> \o RemovedFrom(d, matched, k + 1)
    ELSE RemovedFrom(d, matched, k + 1)

-----------------------------------------------------------------------------
(* The arguments of the enumerated calls *)

SeqUpTo(S, n) == UNION {[1..k -> S] : k \in 0..n}

\* every name, the empty one too, with one status
NameItems == {TodoItem(n, IN_PROGRESS) : n \in TaskNames \cup {<<>>}}

\* a similar pair and an unrelated name, each in progress or completed
StatusItems ==
    {TodoItem(n, s) : n \in TaskNames \ {<<"a","b","c","y","z">>},
                      s \in {IN_PROGRESS, COMPLETED}}

PairItems == {TodoItem(n, s) : n \in TaskNames \cup {<<>>}, s \in PairStatuses}

\* the item sets of the calls on lists
ListItemSets == {NameItems, StatusItems}

\* current of up to MaxCur tasks
CurrentLists(items) == SeqUpTo(items, MaxCur)

\* previous None or of up to MaxPrev tasks
PreviousLists(items) == {NoneList} \cup {TodoList(q) : q \in SeqUpTo(items, MaxPrev)}

-----------------------------------------------------------------------------
(* State machine of one DiffAnalyzer: calls of analyze, one after another *)

-----------------------------------------------------------------------------
(* DiffResult.to_text and DiffResult.get_summary *)

Digits == <<"0", "1", "2", "3", "4", "5", "6", "7", "8", "9">>

\* str(n) of a natural number, as an f-string formats len(...)
RECURSIVE Str(_)
Str(n) == IF n < 10 THEN <<Digits[n + 1]>> ELSE Str(n \div 10) \o <<Digits[(n % 10) + 1]>>

\* an Optional[str] in an f-string: None is written as the word None
Format(x) == IF x = NoneStr THEN <<"N", "o", "n", "e">> ELSE x

\* sep.join(parts)
RECURSIVE Join(_, _)
Join(sep, parts) ==
    IF parts = <<>> THEN <<>>
    ELSE IF Len(parts) = 1 THEN parts[1]
    ELSE parts[1] \o sep \o Join(sep, Tail(parts))

\* the lists of a sequence of lists, one after the other
RECURSIVE Flatten(_)
Flatten(lists) == IF lists = <<>> THEN <<>> ELSE Head(lists) \o Flatten(Tail(lists))

NEWLINE == <<"\n">>
H_COMPLETED == <<"U+3010", "U+5B8C", "U+4E86", "U+3057", "U+305F", "U+30BF", "U+30B9", "U+30AF", "U+3011">>
H_NEW == <<"U+3010", "U+65B0", "U+898F", "U+30BF", "U+30B9", "U+30AF", "U+3011">>
H_MODIFIED == <<"U+3010", "U+5909", "U+66F4", "U+3055", "U+308C", "U+305F", "U+30BF", "U+30B9", "U+30AF", "U+3011">>
H_REMOVED == <<"U+3010", "U+524A", "U+9664", "/", "U+4E2D", "U+6B62", "U+3055", "U+308C", "U+305F", "U+30BF", "U+30B9", "U+30AF", "U+3011">>
H_UNCHANGED == <<"U+3010", "U+7D99", "U+7D9A", "U+4E2D", "U+306E", "U+30BF", "U+30B9", "U+30AF", "U+3011">>
KEN == <<"U+4EF6">>
ITEM_PREFIX == <<" ", " ", "-", " ">>
INDENT == <<" ", " ", " ", " ">>
STATUS_LABEL == <<" ", " ", " ", " ", "U+30B9", "U+30C6", "U+30FC", "U+30BF", "U+30B9", ":", " ">>
ARROW == <<" ", "U+2192", " ">>
MORE == <<" ", " ", ".", ".", ".", " ", "U+4ED6">>
L_COMPLETED == <<"U+5B8C", "U+4E86", ":", " ">>
L_NEW == <<"U+65B0", "U+898F", ":", " ">>
L_MODIFIED == <<"U+5909", "U+66F4", ":", " ">>
L_REMOVED == <<"U+524A", "U+9664", ":", " ">>
L_UNCHANGED == <<"U+7D99", "U+7D9A", ":", " ">>
COMMA == <<"U+3001">>
NO_CHANGES == <<"U+5909", "U+66F4", "U+306A", "U+3057">>

\* a variant that shows every unchanged task
Shown_All(tasks) == tasks

\* self.unchanged_tasks[:5]
Shown(tasks) == SubSeq(tasks, 1, IF Len(tasks) < 5 THEN Len(tasks) ELSE 5)

\* lines of the Completed block
CompletedBlock(tasks) ==
    IF tasks = <<>> THEN <<>>
    ELSE <<H_COMPLETED>>
         \o Flatten([k \in 1..Len(tasks) |->
                       <<ITEM_PREFIX \o tasks[k].task_name>>
                       \o (IF tasks[k].details # <<>>
                           THEN <<INDENT \o tasks[k].details>> ELSE <<>>)])
         \o << <<>> >>

\* lines of the New block
NewBlock(tasks) ==
    IF tasks = <<>> THEN <<>>
    ELSE <<H_NEW>>
         \o Flatten([k \in 1..Len(tasks) |->
                       <<ITEM_PREFIX \o tasks[k].task_name>>
                       \o (IF Truthy(tasks[k].current_status)
                           THEN <<STATUS_LABEL \o tasks[k].current_status>> ELSE <<>>)])
         \o << <<>> >>

\* lines of the Modified block
ModifiedBlock(tasks) ==
    IF tasks = <<>> THEN <<>>
    ELSE <<H_MODIFIED>>
         \o Flatten([k \in 1..Len(tasks) |->
                       << ITEM_PREFIX \o tasks[k].task_name,
                          INDENT \o Format(tasks[k].previous_status) \o ARROW
                                 \o Format(tasks[k].current_status) >>])
         \o << <<>> >>

\* lines of the Removed block
RemovedBlock(tasks) ==
    IF tasks = <<>> THEN <<>>
    ELSE <<H_REMOVED>>
         \o [k \in 1..Len(tasks) |-> ITEM_PREFIX \o tasks[k].task_name]
         \o << <<>> >>

\* lines of the Unchanged block
UnchangedBlock(tasks) ==
    IF tasks = <<>> THEN <<>>
    ELSE <<H_UNCHANGED \o <<"(">> \o Str(Len(tasks)) \o KEN \o <<")">> >>
         \o [k \in 1..Len(Shown(tasks)) |-> ITEM_PREFIX \o Shown(tasks)[k].task_name]
         \o (IF Len(tasks) > 5 THEN <<MORE \o Str(Len(tasks) - 5) \o KEN>> ELSE <<>>)

\* DiffResult.to_text
to_text(self) ==
    Join(NEWLINE,
         CompletedBlock(self.completed_tasks) \o NewBlock(self.new_tasks)
         \o ModifiedBlock(self.modified_tasks) \o RemovedBlock(self.removed_tasks)
         \o UnchangedBlock(self.unchanged_tasks))

\* a variant that also counts the empty buckets
Part_Always(label, tasks) == <<label \o Str(Len(tasks)) \o KEN>>

\* if tasks: parts.append(f"<label>{len(tasks)}<ken>")
Part(label, tasks) == IF tasks = <<>> THEN <<>> ELSE <<label \o Str(Len(tasks)) \o KEN>>

\* DiffResult.get_summary
get_summary(self) ==
    LET parts == Part(L_COMPLETED, self.completed_tasks) \o Part(L_NEW, self.new_tasks)
                 \o Part(L_MODIFIED, self.modified_tasks)
                 \o Part(L_REMOVED, self.removed_tasks)
                 \o Part(L_UNCHANGED, self.unchanged_tasks)
    IN  IF parts # <<>> THEN Join(COMMA, parts) ELSE NO_CHANGES

\* the name of the k-th task of a rendered report
SampleName(k) == <<"t">> \o Str(k)

\* tasks of a rendered report: with and without details, with a status, an
\* empty status and no status
SampleChange(type, k) ==
    TaskChange(SampleName(k), type,
               IF k % 2 = 1 THEN IN_PROGRESS ELSE NoneStr,
               IF k % 3 = 1 THEN COMPLETED ELSE IF k % 3 = 2 THEN <<>> ELSE NoneStr,
               IF k % 2 = 1 THEN COMPLETED_DETAILS ELSE <<>>)

\* the lists a bucket can hold: runs of sample tasks of up to max entries
SampleLists(type, max) ==
    {<<>>} \cup { [k \in 1..n |-> SampleChange(type, first + k - 1)] :
                     first \in 1..2, n \in 1..max }

\* the reports that are rendered
SampleReports ==
    { [completed_tasks |-> c, new_tasks |-> n, modified_tasks |-> m,
       unchanged_tasks |-> u, removed_tasks |-> r] :
         c \in SampleLists("completed", MaxListed), n \in SampleLists("new", MaxListed),
         m \in SampleLists("modified", MaxListed), r \in SampleLists("removed", MaxListed),
         u \in SampleLists("unchanged", MaxUnchanged) }

\* to_text or get_summary has not returned yet
NotReturned == NoneStr

\* no report is being rendered
RenderIdle ==
    /\ diff = DiffResult
    /\ text = NotReturned
    /\ summary = NotReturned

-----------------------------------------------------------------------------
(* ReportData and ReportStorage *)

\* ReportData(...)
ReportData(report_type, target_person, created_at, todo_summary, executive_summary, details, next_actions, source_file) ==
    [report_type |-> report_type, target_person |-> target_person,
     created_at |-> created_at, todo_summary |-> todo_summary,
     executive_summary |-> executive_summary, details |-> details,
     next_actions |-> next_actions, source_file |-> source_file]

\* JSON null
JsonNull == <<"null">>

\* json.dump of a str or None
JsonDump(x) == IF x = NoneStr THEN JsonNull ELSE x

\* json.load of a string or null
JsonLoad(j) == IF j = JsonNull THEN NoneStr ELSE j

\* ReportData.to_dict, as json.dump writes it: a JSON object with eight keys
ReportData_to_dict(self) ==
    [report_type |-> JsonDump(self.report_type),
     target_person |-> JsonDump(self.target_person),
     created_at |-> JsonDump(self.created_at),
     todo_summary |-> JsonDump(self.todo_summary),
     executive_summary |-> JsonDump(self.executive_summary),
     details |-> JsonDump(self.details),
     next_actions |-> [k \in 1..Len(self.next_actions) |-> JsonDump(self.next_actions[k])],
     source_file |-> JsonDump(self.source_file)]

\* data.get(key, default) on a JSON object read by json.load
DictGetOr(data, key, default) ==
    IF key \in DOMAIN data THEN JsonLoad(data[key]) ELSE default

\* ReportData.from_dict
ReportData_from_dict(data) ==
    ReportData(DictGetOr(data, "report_type", <<"w", "e", "e", "k", "l", "y">>),
               DictGetOr(data, "target_person", <<>>),
               DictGetOr(data, "created_at", <<>>),
               DictGetOr(data, "todo_summary", <<>>),
               DictGetOr(data, "executive_summary", <<>>),
               DictGetOr(data, "details", <<>>),
               IF "next_actions" \in DOMAIN data
               THEN [k \in 1..Len(data.next_actions) |-> JsonLoad(data.next_actions[k])]
               ELSE <<>>,
               DictGetOr(data, "source_file", NoneStr))

\* reports.json does not exist.  A file that exists holds the JSON text of
\* the list reports, or a text that json.load cannot parse (broken), of
\* which reports tells what it was made from
NoFile == [exists |-> FALSE, reports |-> <<>>, broken |-> FALSE]

\* a variant that takes from a broken text the reports it was made from
_load_all_reports_Salvage(file) == IF ~file.exists THEN <<>> ELSE file.reports

\* ReportStorage._load_all_reports: no file gives [], and so does every
\* exception of open and json.load
_load_all_reports(file) ==
    IF ~file.exists THEN <<>> ELSE IF file.broken THEN <<>> ELSE file.reports

\* ReportStorage._save_all_reports: open(..., "w") and json.dump in one go
_save_all_reports(reports) == [exists |-> TRUE, reports |-> reports, broken |-> FALSE]

\* the place of a character in the order of the code points
CodePoint(c) == CHOOSE n \in 1..10 : Digits[n] = c

\* a < b for two str, as Python compares them
RECURSIVE StrLess(_, _)
StrLess(a, b) ==
    IF b = <<>> THEN FALSE
    ELSE IF a = <<>> THEN TRUE
    ELSE IF Head(a) # Head(b) THEN CodePoint(Head(a)) < CodePoint(Head(b))
    ELSE StrLess(Tail(a), Tail(b))

\* a step of sorted(..., reverse=True): r goes behind every report whose
\* created_at is not smaller, so that equal keys keep their order
RECURSIVE InsertReverse(_, _)
InsertReverse(r, sorted) ==
    IF sorted = <<>> THEN <<r>>
    ELSE IF StrLess(DictGetOr(Head(sorted), "created_at", <<>>),
                    DictGetOr(r, "created_at", <<>>))
         THEN <<r>> \o sorted
         ELSE <<Head(sorted)>> \o InsertReverse(r, Tail(sorted))

\* sorted(filtered, key=lambda r: r.get("created_at", ""), reverse=True)
RECURSIVE SortedReverse(_)
SortedReverse(filtered) ==
    IF filtered = <<>> THEN <<>>
    ELSE InsertReverse(filtered[Len(filtered)],
                       SortedReverse(SubSeq(filtered, 1, Len(filtered) - 1)))

\* get_latest_report returned None
NoReport == [none |-> TRUE]

\* a variant that filters on every argument that is not None
FilterBy_NotNone(reports, key, wanted) ==
    IF wanted # NoneStr
    THEN LET Wanted(r) == DictGetOr(r, key, NoneStr) = wanted IN SelectSeq(reports, Wanted)
    ELSE reports

\* if wanted: filtered = [r for r in filtered if r.get(key) == wanted]
FilterBy(reports, key, wanted) ==
    IF Truthy(wanted)
    THEN LET Wanted(r) == DictGetOr(r, key, NoneStr) = wanted IN SelectSeq(reports, Wanted)
    ELSE reports

\* ReportStorage.get_latest_report
get_latest_report(file, report_type, target_person) ==
    LET reports == _load_all_reports(file)
        filtered == FilterBy(FilterBy(reports, "report_type", report_type),
                             "target_person", target_person)
    IN  IF filtered = <<>> THEN NoReport
        ELSE ReportData_from_dict(SortedReverse(filtered)[1])

\* get_reports has not been called
NotListed == [asked |-> FALSE, report_type |-> NoneStr, target_person |-> NoneStr,
              limit |-> 0, returned |-> <<>>]

\* ReportStorage.get_reports
get_reports(file, report_type, target_person, limit) ==
    LET reports == _load_all_reports(file)
        filtered == FilterBy(FilterBy(reports, "report_type", report_type),
                             "target_person", target_person)
        sorted_reports == SortedReverse(filtered)
        cut == Slice(sorted_reports, limit)
    IN  [k \in 1..Len(cut) |-> ReportData_from_dict(cut[k])]

WEEKLY == <<"w", "e", "e", "k", "l", "y">>
MONTHLY == <<"m", "o", "n", "t", "h", "l", "y">>

\* the persons reports are written for; a report can name no person
Persons == { <<"A">>, <<>> }

\* creation times; as strings the second is the smaller one
CreationTimes == { <<"2">>, <<"1", "0">> }

\* the reports that are saved
SampleReportData ==
    { ReportData(t, p, c, <<>>, t, <<>>, <<p>>, NoneStr) :
         t \in {WEEKLY, MONTHLY}, p \in Persons, c \in CreationTimes }

\* a variant that writes the new report alone
save_report_Overwrite(file, report) == _save_all_reports(<<ReportData_to_dict(report)>>)

\* ReportStorage.save_report
save_report(file, report) ==
    _save_all_reports(Append(_load_all_reports(file), ReportData_to_dict(report)))

\* the default of limit in get_reports
DEFAULT_LIMIT == 10

\* limits of get_reports: the default, one, none, and all but the last
SampleLimits == {DEFAULT_LIMIT, 1, 0, -1}

\* get_latest_report has not been called
NotAsked == [asked |-> FALSE, report_type |-> NoneStr, target_person |-> NoneStr]

\* a new storage directory, nothing asked yet
StorageIdle ==
    /\ reports_file = NoFile
    /\ query = NotAsked
    /\ latest = NoReport
    /\ saved = <<>>
    /\ report_list = NotListed

-----------------------------------------------------------------------------
(* TargetProfile and ProfileManager *)

MEDIUM == <<"m", "e", "d", "i", "u", "m">>
LOW == <<"l", "o", "w">>
HIGH == <<"h", "i", "g", "h">>
MARKDOWN == <<"m", "a", "r", "k", "d", "o", "w", "n">>
PLAIN_TEXT == <<"t", "e", "x", "t">>

\* TargetProfile(...)
TargetProfile(name, role, focus, description, summary_max_chars, detail_level, preferred_format) ==
    [name |-> name, role |-> role, focus |-> focus, description |-> description,
     summary_max_chars |-> summary_max_chars, detail_level |-> detail_level,
     preferred_format |-> preferred_format]

\* a variant that does not write preferred_format
TargetProfile_to_dict_NoFormat(self) ==
    [name |-> JsonDump(self.name), role |-> JsonDump(self.role),
     focus |-> JsonDump(self.focus), description |-> JsonDump(self.description),
     summary_max_chars |-> self.summary_max_chars,
     detail_level |-> JsonDump(self.detail_level)]

\* TargetProfile.to_dict, as json.dump writes it: a JSON object with seven keys
TargetProfile_to_dict(self) ==
    [name |-> JsonDump(self.name), role |-> JsonDump(self.role),
     focus |-> JsonDump(self.focus), description |-> JsonDump(self.description),
     summary_max_chars |-> self.summary_max_chars,
     detail_level |-> JsonDump(self.detail_level),
     preferred_format |-> JsonDump(self.preferred_format)]

\* TargetProfile.from_dict
TargetProfile_from_dict(data) ==
    TargetProfile(DictGetOr(data, "name", <<>>),
                  DictGetOr(data, "role", <<>>),
                  DictGetOr(data, "focus", <<>>),
                  DictGetOr(data, "description", <<>>),
                  IF "summary_max_chars" \in DOMAIN data THEN data.summary_max_chars ELSE 300,
                  DictGetOr(data, "detail_level", MEDIUM),
                  DictGetOr(data, "preferred_format", MARKDOWN))

KACHOU == <<"U+8AB2", "U+9577">>
SHITSUCHOU == <<"U+5BA4", "U+9577">>
BUCHOU == <<"U+90E8", "U+9577">>
MEMBER == <<"U+30E1", "U+30F3", "U+30D0", "U+30FC">>
FOCUS_KACHOU == <<"U+7D0D", "U+671F", "U+91CD", "U+8996">>
FOCUS_SHITSUCHOU == <<"U+65B9", "U+91DD", "U+91CD", "U+8996">>
FOCUS_BUCHOU == <<"U+30B3", "U+30B9", "U+30C8", "U+91CD", "U+8996">>
FOCUS_MEMBER == <<"U+8A73", "U+7D30", "U+91CD", "U+8996">>
DESCRIPTION_KACHOU ==
    <<"U+30B9", "U+30B1", "U+30B8", "U+30E5", "U+30FC", "U+30EB", "U+9075", "U+5B88",
    "U+3068", "U+9032", "U+6357", "U+72B6", "U+6CC1", "U+3092", "U+91CD", "U+8996",
    "U+3002", "U+9045", "U+5EF6", "U+30EA", "U+30B9", "U+30AF", "U+304C", "U+3042",
    "U+308C", "U+3070", "U+65E9", "U+671F", "U+306B", "U+5831", "U+544A", "U+3092",
    "U+6C42", "U+3081", "U+308B", "U+3002">>
DESCRIPTION_SHITSUCHOU ==
    <<"U+5168", "U+4F53", "U+65B9", "U+91DD", "U+3068", "U+306E", "U+6574", "U+5408",
    "U+6027", "U+3092", "U+91CD", "U+8996", "U+3002", "U+6226", "U+7565", "U+7684",
    "U+306A", "U+89B3", "U+70B9", "U+304B", "U+3089", "U+306E", "U+5831", "U+544A",
    "U+3092", "U+597D", "U+3080", "U+3002">>
DESCRIPTION_BUCHOU ==
    <<"U+30B3", "U+30B9", "U+30C8", "U+52B9", "U+7387", "U+3068", "R", "O", "I",
    "U+3092", "U+91CD", "U+8996", "U+3002", "U+4E88", "U+7B97", "U+3078", "U+306E",
    "U+5F71", "U+97FF", "U+3092", "U+660E", "U+78BA", "U+306B", "U+3057", "U+305F",
    "U+5831", "U+544A", "U+3092", "U+6C42", "U+3081", "U+308B", "U+3002">>
DESCRIPTION_MEMBER ==
    <<"U+6280", "U+8853", "U+7684", "U+306A", "U+8A73", "U+7D30", "U+3084", "U+5177",
    "U+4F53", "U+7684", "U+306A", "U+4F5C", "U+696D", "U+5185", "U+5BB9", "U+3092",
    "U+91CD", "U+8996", "U+3002", "U+5B9F", "U+88C5", "U+30EC", "U+30D9", "U+30EB",
    "U+306E", "U+60C5", "U+5831", "U+3092", "U+6C42", "U+3081", "U+308B", "U+3002">>

\* a variant without the last default profile
DEFAULT_PROFILES_Three ==
    SubSeq(<< TargetProfile(KACHOU, KACHOU, FOCUS_KACHOU, DESCRIPTION_KACHOU, 300, MEDIUM, MARKDOWN),
              TargetProfile(SHITSUCHOU, SHITSUCHOU, FOCUS_SHITSUCHOU, DESCRIPTION_SHITSUCHOU, 400, MEDIUM, MARKDOWN),
              TargetProfile(BUCHOU, BUCHOU, FOCUS_BUCHOU, DESCRIPTION_BUCHOU, 250, LOW, MARKDOWN) >>, 1, 3)

\* the module constant DEFAULT_PROFILES
DEFAULT_PROFILES ==
    << TargetProfile(KACHOU, KACHOU, FOCUS_KACHOU, DESCRIPTION_KACHOU, 300, MEDIUM, MARKDOWN),
       TargetProfile(SHITSUCHOU, SHITSUCHOU, FOCUS_SHITSUCHOU, DESCRIPTION_SHITSUCHOU, 400, MEDIUM, MARKDOWN),
       TargetProfile(BUCHOU, BUCHOU, FOCUS_BUCHOU, DESCRIPTION_BUCHOU, 250, LOW, MARKDOWN),
       TargetProfile(MEMBER, MEMBER, FOCUS_MEMBER, DESCRIPTION_MEMBER, 500, HIGH, MARKDOWN) >>

\* a dict as the sequence of its items, in insertion order
ItemHas(d, key) == \E k \in 1..Len(d) : d[k].key = key

\* d.get(key): the value, or None
NoProfile == [none |-> TRUE]

ItemGet(d, key) ==
    IF ItemHas(d, key) THEN d[CHOOSE k \in 1..Len(d) : d[k].key = key].value ELSE NoProfile

\* d[key] = value: a present key keeps its place
ItemSet(d, key, value) ==
    IF ItemHas(d, key)
    THEN [k \in 1..Len(d) |-> IF d[k].key = key THEN [key |-> key, value |-> value] ELSE d[k]]
    ELSE Append(d, [key |-> key, value |-> value])

\* a variant that deletes nothing
ItemDel_Nothing(d, key) == d

\* del d[key]
ItemDel(d, key) == LET Other(i) == i.key # key IN SelectSeq(d, Other)

\* profiles.json does not exist
NoProfilesFile == [exists |-> FALSE, data |-> <<>>]

\* ProfileManager._save_profiles: the file after json.dump of
\* {name: profile.to_dict() for name, profile in self._profiles.items()}
_save_profiles(profiles) ==
    [exists |-> TRUE,
     data |-> [k \in 1..Len(profiles) |->
                  [key |-> JsonDump(profiles[k].key),
                   value |-> TargetProfile_to_dict(profiles[k].value)]]]

RECURSIVE SetDefaults(_, _)
\* for profile in DEFAULT_PROFILES[k:]: self._profiles[profile.name] = profile
SetDefaults(profiles, k) ==
    IF k > Len(DEFAULT_PROFILES) THEN profiles
    ELSE SetDefaults(ItemSet(profiles, DEFAULT_PROFILES[k].name, DEFAULT_PROFILES[k]), k + 1)

\* ProfileManager._initialize_defaults: the profiles and the file after it
_initialize_defaults(profiles) ==
    LET filled == SetDefaults(profiles, 1)
    IN  [profiles |-> filled, file |-> _save_profiles(filled)]

\* ProfileManager._load_profiles on an empty self._profiles
_load_profiles(file) ==
    IF file.exists
    THEN [profiles |-> [k \in 1..Len(file.data) |->
                           [key |-> JsonLoad(file.data[k].key),
                            value |-> TargetProfile_from_dict(file.data[k].value)]],
          file |-> file]
    ELSE _initialize_defaults(<<>>)

\* ProfileManager.add_profile
add_profile(profiles, profile) ==
    LET added == ItemSet(profiles, profile.name, profile)
    IN  [profiles |-> added, file |-> _save_profiles(added)]

\* ProfileManager.delete_profile
delete_profile(profiles, file, name) ==
    IF ItemHas(profiles, name)
    THEN [profiles |-> ItemDel(profiles, name),
          file |-> _save_profiles(ItemDel(profiles, name)), returned |-> TRUE]
    ELSE [profiles |-> profiles, file |-> file, returned |-> FALSE]

\* ProfileManager.get_profile
get_profile(profiles, name) == ItemGet(profiles, name)

\* a variant that keeps the profiles it has
reset_to_defaults_Keep(profiles) == _initialize_defaults(profiles)

\* ProfileManager.reset_to_defaults
reset_to_defaults(profiles) == _initialize_defaults(<<>>)

CUSTOM == <<"U+30AB", "U+30B9", "U+30BF", "U+30E0", "U+5831", "U+544A", "U+5148">>
MANAGER == <<"U+30DE", "U+30CD", "U+30FC", "U+30B8", "U+30E3", "U+30FC">>
QUALITY == <<"U+54C1", "U+8CEA", "U+91CD", "U+8996">>
MISSING == <<"U+5B58", "U+5728", "U+3057", "U+306A", "U+3044">>

\* the profiles that are added: a new one, and one under the name of a default
SampleProfiles ==
    { TargetProfile(CUSTOM, MANAGER, QUALITY, <<>>, 300, MEDIUM, MARKDOWN),
      TargetProfile(KACHOU, MANAGER, QUALITY, <<>>, 0, HIGH, PLAIN_TEXT) }

\* the names that are deleted: defaults, the added one, and one never added
SampleNames == {KACHOU, SHITSUCHOU, BUCHOU, MEMBER, CUSTOM, MISSING}

\* no second manager has been made
NotConstructed == [constructed |-> FALSE, profiles |-> <<>>]

\* a call op(name) that returned the value returned
Op(op, name, returned, before, file_before) ==
    [op |-> op, name |-> name, returned |-> returned, before |-> before,
     file_before |-> file_before]

\* a storage directory without profiles file, and no manager yet
ProfileIdle ==
    /\ _profiles = <<>>
    /\ profiles_file = NoProfilesFile
    /\ last_op = Op("none", <<>>, FALSE, <<>>, NoProfilesFile)
    /\ reopened = NotConstructed

-----------------------------------------------------------------------------
(* OutputFormatter: the truncation of the executive summary *)

\* longest text that is truncated
MaxText == 5

\* largest max_chars that is asked for
MaxChars == 4

\* int
SomeInt(n) == [present |-> TRUE, value |-> n]

\* Optional[int] = None
NoneInt == [present |-> FALSE, value |-> 0]

\* the default of max_summary_chars in OutputFormatter.__init__
DEFAULT_MAX_SUMMARY_CHARS == 300

KUTEN == "U+3002"
FULLWIDTH_STOP == "U+FF0E"
FULL_STOP == "."

ELLIPSIS_Four == <<".", ".", ".", ".">>

ELLIPSIS == <<".", ".", ".">>

\* s.rfind(c): the highest 0-based index of c in s, or -1
RFind(s, c) ==
    LET at == {k \in 1..Len(s) : s[k] = c}
    IN  IF at = {} THEN -1
        ELSE (CHOOSE k \in at : \A m \in at : k >= m) - 1

\* max(a, b, c)
Max3(a, b, c) ==
    LET ab == IF a >= b THEN a ELSE b
    IN  IF ab >= c THEN ab ELSE c

\* s.rstrip()
RStrip(s) ==
    LET keep == {k \in 1..Len(s) : s[k] \notin Whitespace}
    IN  IF keep = {} THEN <<>>
        ELSE SubSeq(s, 1, CHOOSE k \in keep : \A m \in keep : k >= m)

\* last_period > max_chars * 0.7, on integers
PastThreshold(last_period, max_chars) == 10 * last_period > 7 * max_chars

CutAt_Before(truncated, last_period) == Slice(truncated, last_period)

\* truncated[: last_period + 1]
CutAt(truncated, last_period) == Slice(truncated, last_period + 1)

_truncate_text(long_text, max_chars) ==
    IF Len(long_text) <= max_chars THEN long_text
    ELSE LET truncated == Slice(long_text, max_chars)
             last_period == Max3(RFind(truncated, KUTEN),
                                 RFind(truncated, FULLWIDTH_STOP),
                                 RFind(truncated, FULL_STOP))
         IN  IF PastThreshold(last_period, max_chars)
             THEN CutAt(truncated, last_period)
             ELSE RStrip(truncated) \o ELLIPSIS

\* max_chars or self._max_summary_chars
OrDefault(max_chars, default) ==
    IF max_chars.present /\ max_chars.value # 0 THEN max_chars.value ELSE default

format_summary_only(executive_summary, max_chars, max_summary_chars) ==
    LET chars == OrDefault(max_chars, max_summary_chars)
    IN  _truncate_text(executive_summary, chars)

\* the characters of the texts: a letter, a space and the three periods
Alphabet == {"a", " ", KUTEN, FULLWIDTH_STOP, FULL_STOP}

SampleTexts == UNION {[1..n -> Alphabet] : n \in 0..MaxText}

SampleMaxChars == (-MaxChars)..MaxChars

SampleMaxSummaryChars == {DEFAULT_MAX_SUMMARY_CHARS, MaxChars}

\* a call on the formatter with what it returned
FormatCall(op, long_text, max_chars, returned) ==
    [op |-> op, text |-> long_text, max_chars |-> max_chars, returned |-> returned]

NoFormatCall == FormatCall("none", <<>>, NoneInt, <<>>)

\* OutputFormatter() and no call on it yet
FormatterIdle ==
    /\ _max_summary_chars = DEFAULT_MAX_SUMMARY_CHARS
    /\ formatted = NoFormatCall

-----------------------------------------------------------------------------
(* ReportGenerator.generate and BedrockClient.generate *)

\* a TodoList read from the file source_file
TodoListOf(items, source_file) ==
    [present |-> TRUE, items |-> items, source_file |-> source_file]

\* TodoList.to_text of items that have a task and a status and nothing else
TodoList_to_text(self) ==
    Join(NEWLINE,
         [i \in 1..Len(self.items) |->
            Str(i) \o <<".", " ">> \o self.items[i].task
            \o (IF self.items[i].status # <<>>
                THEN <<" ", "[">> \o self.items[i].status \o <<"]">>
                ELSE <<>>)])

\* the characters of the ToDo text that are stored with a report
TODO_SUMMARY_CHARS == 500

\* GeneratedReport(...); diff_result is None since previous_todos is None
GeneratedReport(executive_summary, details, next_actions, raw_response) ==
    [executive_summary |-> executive_summary, details |-> details,
     next_actions |-> next_actions, raw_response |-> raw_response]

\* generate has returned nothing
NoGenerated == GeneratedReport(<<>>, <<>>, <<>>, NoneStr)

\* a response text of the model, given by the three sections that
\* _extract_section finds in it
Response(executive_summary, details, next_actions) ==
    [executive_summary |-> executive_summary, details |-> details,
     next_actions |-> next_actions]

\* ReportGenerator._parse_response
_parse_response(response) ==
    GeneratedReport(response.executive_summary, response.details,
                    response.next_actions, response)

\* how self._client.invoke_model and the reading of its body end: with a
\* response text, with botocore's ClientError, or with another exception
\* (a connection error, a body without content)
Invoked(kind, response) == [kind |-> kind, response |-> response]

\* BedrockClient.generate: only ClientError is turned into BedrockError
BedrockClient_generate(invoked) ==
    IF invoked.kind = "returned"
    THEN [raised |-> "", response |-> invoked.response]
    ELSE IF invoked.kind = "ClientError"
    THEN [raised |-> "BedrockError", response |-> invoked.response]
    ELSE [raised |-> invoked.kind, response |-> invoked.response]

\* what generate leaves: the exception it raised, if any, the report it
\* returned, the reports file, and the ReportData it saved, if any
Generated(raised, returned, file, report_data) ==
    [raised |-> raised, returned |-> returned, file |-> file, report_data |-> report_data]

\* a variant that saves the report before it calls Bedrock
generate_SavesFirst(file, todo_list, target_person, report_type, save, invoked, now) ==
    LET called == BedrockClient_generate(invoked)
        generated == _parse_response(invoked.response)
        report_data ==
            ReportData(report_type, target_person, now,
                       Slice(TodoList_to_text(todo_list), TODO_SUMMARY_CHARS),
                       generated.executive_summary, generated.details,
                       generated.next_actions, todo_list.source_file)
        stored == IF save THEN save_report(file, report_data) ELSE file
    IN  IF called.raised = "BedrockError"
        THEN Generated("ReportGenerationError", NoGenerated, stored, NoReport)
        ELSE IF called.raised # ""
        THEN Generated(called.raised, NoGenerated, stored, NoReport)
        ELSE Generated("", generated, stored, IF save THEN report_data ELSE NoReport)

\* ReportGenerator.generate(todo_list, target_profile, report_type,
\* save_report=save) with previous_todos=None, on the reports file file;
\* target_person is target_profile.name, now is datetime.now().isoformat()
generate(file, todo_list, target_person, report_type, save, invoked, now) ==
    LET called == BedrockClient_generate(invoked)
    IN  IF called.raised = "BedrockError"
        THEN Generated("ReportGenerationError", NoGenerated, file, NoReport)
        ELSE IF called.raised # ""
        THEN Generated(called.raised, NoGenerated, file, NoReport)
        ELSE LET generated == _parse_response(called.response)
             IN  IF save
                 THEN LET report_data ==
                              ReportData(report_type, target_person, now,
                                         Slice(TodoList_to_text(todo_list), TODO_SUMMARY_CHARS),
                                         generated.executive_summary, generated.details,
                                         generated.next_actions, todo_list.source_file)
                      IN  Generated("", generated, save_report(file, report_data), report_data)
                 ELSE Generated("", generated, file, NoReport)

\* the ToDo lists that reports are generated from
SampleTodoLists ==
    { TodoListOf(<<TodoItem(<<"a">>, <<>>)>>, NoneStr),
      TodoListOf(<<TodoItem(<<"a">>, <<"x">>), TodoItem(<<"b">>, <<>>)>>, <<"t">>) }

\* the response texts of the model
SampleResponses == { Response(<<"o", "k">>, <<"d">>, << <<"n">> >>) }

\* no response text
NoResponse == Response(<<>>, <<>>, <<>>)

\* the ways the Bedrock call ends
SampleInvoked ==
    { Invoked("returned", r) : r \in SampleResponses }
      \cup { Invoked("ClientError", NoResponse), Invoked("EndpointConnectionError", NoResponse) }

\* a generate call: its arguments, how it ended and the file before it
GenerateCall(called, todo_list, target_person, report_type, save, invoked, now, ended, store_before) ==
    [called |-> called, todo_list |-> todo_list, target_person |-> target_person,
     report_type |-> report_type, save_report |-> save, invoked |-> invoked,
     now |-> now, raised |-> ended.raised, returned |-> ended.returned,
     store_before |-> store_before]

\* generate has not been called
NoGenerateCall ==
    GenerateCall(FALSE, TodoListOf(<<>>, NoneStr), <<>>, WEEKLY, FALSE,
                 Invoked("none", NoResponse), <<>>,
                 Generated("", NoGenerated, NoFile, NoReport), NoFile)

\* ReportGenerator(...) and no call on it yet
GeneratorIdle == generation = NoGenerateCall

-----------------------------------------------------------------------------
(* save_report in two processes on one reports file *)

\* the two processes
Writers == {1, 2}

\* the sum of a sequence of numbers
RECURSIVE SumOf(_)
SumOf(seq) == IF seq = <<>> THEN 0 ELSE seq[1] + SumOf(Tail(seq))

\* bytes of an ASCII string without escapes, or of null, in the JSON text
FieldSize(v) == IF v = JsonNull THEN 4 ELSE Len(v) + 2

\* bytes of the list next_actions as json.dump(indent=2) writes it inside
\* an entry: one line of six spaces per element
ListSize(xs) ==
    IF xs = <<>> THEN 2
    ELSE 1 + SumOf([k \in 1..Len(xs) |-> 7 + FieldSize(xs[k])]) + (Len(xs) - 1) + 6

\* the lengths of the eight keys of ReportData.to_dict, in its order
KeyLengths == <<11, 13, 10, 12, 17, 7, 12, 11>>

\* bytes of one entry: a line of four spaces, the key and ': ' per field
EntrySize(d) ==
    1 + SumOf([k \in 1..Len(KeyLengths) |-> 9 + KeyLengths[k]])
      + FieldSize(d.report_type) + FieldSize(d.target_person)
      + FieldSize(d.created_at) + FieldSize(d.todo_summary)
      + FieldSize(d.executive_summary) + FieldSize(d.details)
      + ListSize(d.next_actions) + FieldSize(d.source_file)
      + (Len(KeyLengths) - 1) + 4

\* bytes of the text that json.dump(reports, f, ensure_ascii=False, indent=2)
\* writes
JsonSize(reports) ==
    IF reports = <<>> THEN 2
    ELSE 1 + SumOf([k \in 1..Len(reports) |-> 3 + EntrySize(reports[k])])
           + (Len(reports) - 1) + 2

\* a save_report call of a process: where it is (idle, loaded, opened,
\* done), its local list reports, the report it saves, and where the other
\* process was when this one loaded the file
Writer(pos, reports, report, other_at_load) ==
    [pc |-> pos, reports |-> reports, report |-> report, other_at_load |-> other_at_load]

\* the process has not called save_report
NoWriter == Writer("idle", <<>>, NoReport, "idle")

\* no process has called save_report
NoWriters ==
    /\ writers = [w \in Writers |-> NoWriter]
    /\ file_size = 0
    /\ written = <<>>

\* open(self._reports_file, "w"): the file exists and is empty, which
\* json.load cannot parse
Truncated == [exists |-> TRUE, reports |-> <<>>, broken |-> TRUE]

\* a variant of the write that replaces the file as a whole
Overlay_Replace(reports, size) == _save_all_reports(reports)

\* the file after the text of reports is written from offset 0 over size
\* bytes on disk: the bytes behind the new text stay, and then the file is
\* a list followed by the end of another list, which json.load rejects
Overlay(reports, size) ==
    IF JsonSize(reports) >= size
    THEN _save_all_reports(reports)
    ELSE [exists |-> TRUE, reports |-> reports, broken |-> TRUE]

-----------------------------------------------------------------------------
(* The calls of analyze *)

\* no DiffResult object
NoRef == 0

\* the caller holds no report
NoKept == [ref |-> NoRef, current |-> <<>>, previous |-> NoneList, report |-> DiffResult]

\* a variant in which every DiffResult is the same object
NewRef_Shared(k) == 1

\* DiffResult(): a new object, with lists made by default_factory=list, is no
\* object that is still referenced
NewRef(k) == IF k.ref = 1 THEN 2 ELSE 1

\* what the holder of object k sees after the lists of object ref became r
Seen(k, ref, r) == IF k.ref = ref /\ k.ref # NoRef THEN [k EXCEPT !.report = r] ELSE k

AnalyzerIdle ==
    /\ pc = "idle"
    /\ current = <<>>
    /\ previous = NoneList
    /\ result = DiffResult
    /\ previous_tasks = <<>>
    /\ matched_previous = {}
    /\ idx = 0
    /\ prev_item = NoItem
    /\ similar_task = NoneStr
    /\ change = NoChange
    /\ result_ref = NoRef
    /\ kept = NoKept

Init ==
    /\ AnalyzerIdle /\ RenderIdle /\ StorageIdle /\ ProfileIdle /\ FormatterIdle
    /\ GeneratorIdle /\ NoWriters

\* analyze(current, previous) is entered while the caller holds the report k:
\* result = DiffResult() makes a new object with five new lists
Enter(c, p, k) ==
    /\ current' = c
    /\ previous' = p
    /\ result' = DiffResult
    /\ result_ref' = NewRef(k)
    /\ kept' = k
    /\ pc' = "start"
    \* the locals of the new call are not bound yet
    /\ previous_tasks' = <<>>
    /\ matched_previous' = {}
    /\ idx' = 0
    /\ prev_item' = NoItem
    /\ similar_task' = NoneStr
    /\ change' = NoChange
    /\ UNCHANGED otherVars

\* a call of analyze: on two lists, or on one previous and one current task
Call ==
    /\ pc = "idle"
    /\ \/ \E items \in ListItemSets :
             \E c \in CurrentLists(items), p \in PreviousLists(items) : Enter(c, p, kept)
       \/ \E c \in PairItems, p \in PairItems : Enter(<<c>>, TodoList(<<p>>), kept)

\* previous is None or has no items: every current task is new
ColdStart ==
    /\ pc = "start"
    /\ (~previous.present \/ previous.items = <<>>)
    /\ result' = [result EXCEPT !.new_tasks =
                     @ \o [k \in 1..Len(current) |-> NewTaskChange(current[k])]]
    /\ kept' = Seen(kept, result_ref, result')
    /\ pc' = "done"
    /\ UNCHANGED <<current, previous, previous_tasks, matched_previous, idx,
                   prev_item, similar_task, change, result_ref>>
    /\ UNCHANGED otherVars

\* previous_tasks = {item.task: item ...}; matched_previous = set()
BuildLookup ==
    /\ pc = "start"
    /\ previous.present /\ previous.items # <<>>
    /\ previous_tasks' = BuildDict(previous.items, Len(previous.items))
    /\ matched_previous' = {}
    /\ idx' = 1
    /\ pc' = "loop"
    /\ UNCHANGED <<current, previous, result, prev_item, similar_task, change,
                   result_ref, kept>>
    /\ UNCHANGED otherVars

\* a variant that does not mark the previous name as matched
ExactMatch_NoMark ==
    /\ pc = "loop"
    /\ idx <= Len(current)
    /\ DictHas(previous_tasks, current[idx].task)
    /\ LET current_item == current[idx]
           found == DictGet(previous_tasks, current_item.task)
           compared == _compare_items(found, current_item, FALSE)
       IN  /\ prev_item' = found
           /\ matched_previous' = matched_previous
           /\ change' = compared
           /\ result' = _add_to_result(result, compared)
    /\ kept' = Seen(kept, result_ref, result')
    /\ idx' = idx + 1
    /\ UNCHANGED <<pc, current, previous, previous_tasks, similar_task, result_ref>>
    /\ UNCHANGED otherVars

\* one iteration: current_item.task in previous_tasks
ExactMatch ==
    /\ pc = "loop"
    /\ idx <= Len(current)
    /\ DictHas(previous_tasks, current[idx].task)
    /\ LET current_item == current[idx]
           found == DictGet(previous_tasks, current_item.task)
           compared == _compare_items(found, current_item, FALSE)
       IN  /\ prev_item' = found
           /\ matched_previous' = matched_previous \cup {current_item.task}
           /\ change' = compared
           /\ result' = _add_to_result(result, compared)
    /\ kept' = Seen(kept, result_ref, result')
    /\ idx' = idx + 1
    /\ UNCHANGED <<pc, current, previous, previous_tasks, similar_task, result_ref>>
    /\ UNCHANGED otherVars

\* one iteration: no exact match, _find_similar_task returned a name
FuzzyMatch ==
    /\ pc = "loop"
    /\ idx <= Len(current)
    /\ ~DictHas(previous_tasks, current[idx].task)
    /\ LET current_item == current[idx]
           similar == _find_similar_task(current_item.task, DictKeys(previous_tasks),
                                         matched_previous)
       IN  /\ Truthy(similar)
           /\ similar_task' = similar
           /\ IF DictHas(previous_tasks, similar)
              THEN LET found == DictGet(previous_tasks, similar)
                       compared == _compare_items(found, current_item, TRUE)
                   IN  /\ prev_item' = found
                       /\ matched_previous' = matched_previous \cup {similar}
                       /\ change' = compared
                       /\ result' = _add_to_result(result, compared)
                       /\ idx' = idx + 1
                       /\ pc' = pc
              ELSE \* previous_tasks[similar_task] raises KeyError
                   /\ pc' = "error"
                   /\ UNCHANGED <<prev_item, matched_previous, change, result, idx>>
    /\ kept' = Seen(kept, result_ref, result')
    /\ UNCHANGED <<current, previous, previous_tasks, result_ref>>
    /\ UNCHANGED otherVars

\* one iteration: no exact match and no similar task
NewTask ==
    /\ pc = "loop"
    /\ idx <= Len(current)
    /\ ~DictHas(previous_tasks, current[idx].task)
    /\ LET current_item == current[idx]
           similar == _find_similar_task(current_item.task, DictKeys(previous_tasks),
                                         matched_previous)
       IN  /\ ~Truthy(similar)
           /\ similar_task' = similar
           /\ result' = [result EXCEPT !.new_tasks = Append(@, NewTaskChange(current_item))]
    /\ kept' = Seen(kept, result_ref, result')
    /\ idx' = idx + 1
    /\ UNCHANGED <<pc, current, previous, previous_tasks, matched_previous,
                   prev_item, change, result_ref>>
    /\ UNCHANGED otherVars

\* after the loop: every unmatched previous name is removed; return result
DetectRemoved ==
    /\ pc = "loop"
    /\ idx > Len(current)
    /\ result' = [result EXCEPT !.removed_tasks =
                     @ \o RemovedFrom(previous_tasks, matched_previous, 1)]
    /\ kept' = Seen(kept, result_ref, result')
    /\ pc' = "done"
    /\ UNCHANGED <<current, previous, previous_tasks, matched_previous, idx,
                   prev_item, similar_task, change, result_ref>>
    /\ UNCHANGED otherVars

\* the caller has the report; the analyzer keeps nothing of the call
Return ==
    /\ pc = "done"
    /\ pc' = "idle"
    /\ current' = <<>>
    /\ previous' = NoneList
    /\ result' = DiffResult
    /\ previous_tasks' = <<>>
    /\ matched_previous' = {}
    /\ idx' = 0
    /\ prev_item' = NoItem
    /\ similar_task' = NoneStr
    /\ change' = NoChange
    /\ result_ref' = NoRef
    /\ kept' = NoKept
    /\ UNCHANGED otherVars

Next ==
    \/ Call
    \/ ColdStart
    \/ BuildLookup
    \/ ExactMatch
    \/ FuzzyMatch
    \/ NewTask
    \/ DetectRemoved
    \/ Return

Spec == Init /\ [][Next]_vars

\* the caller keeps the report it was given and calls analyze once more on
\* the same two collections
CallAgain ==
    /\ pc = "done"
    /\ kept = NoKept
    /\ Enter(current, previous,
             [ref |-> result_ref, current |-> current, previous |-> previous,
              report |-> result])

\* calls of analyze, some of them repeated by a caller that keeps the report
NextPure ==
    \/ Call
    \/ ColdStart
    \/ BuildLookup
    \/ ExactMatch
    \/ FuzzyMatch
    \/ NewTask
    \/ DetectRemoved
    \/ Return
    \/ CallAgain

PureSpec == Init /\ [][NextPure]_vars

-----------------------------------------------------------------------------
(* The calls of to_text and get_summary on a report *)

\* a report to render; the analyzer is not involved
RenderInit ==
    /\ AnalyzerIdle
    /\ diff \in SampleReports
    /\ text = NotReturned
    /\ summary = NotReturned
    /\ StorageIdle
    /\ ProfileIdle
    /\ FormatterIdle
    /\ GeneratorIdle
    /\ NoWriters

\* text = diff.to_text()
ToText ==
    /\ text = NotReturned
    /\ text' = to_text(diff)
    /\ UNCHANGED <<diff, summary, analyzerVars, storageVars, profileVars, formatterVars, generatorVars, raceVars>>

\* summary = diff.get_summary()
GetSummary ==
    /\ summary = NotReturned
    /\ summary' = get_summary(diff)
    /\ UNCHANGED <<diff, text, analyzerVars, storageVars, profileVars, formatterVars, generatorVars, raceVars>>

NextRender ==
    \/ ToText
    \/ GetSummary

RenderSpec == RenderInit /\ [][NextRender]_vars

-----------------------------------------------------------------------------
(* The calls of save_report and get_latest_report on one ReportStorage *)

\* storage.save_report(report); what an earlier query returned is out of date
SaveReport ==
    /\ Len(saved) < MaxReports
    /\ \E report \in SampleReportData :
          /\ reports_file' = save_report(reports_file, report)
          /\ saved' = Append(saved, report)
    /\ query' = NotAsked
    /\ latest' = NoReport
    /\ report_list' = NotListed
    /\ UNCHANGED <<analyzerVars, renderVars, profileVars, formatterVars, generatorVars, raceVars>>

\* latest = storage.get_latest_report(report_type, target_person)
GetLatestReport ==
    /\ \E report_type \in {NoneStr, <<>>, WEEKLY, MONTHLY}, target_person \in {NoneStr} \cup Persons :
          /\ query' = [asked |-> TRUE, report_type |-> report_type,
                       target_person |-> target_person]
          /\ latest' = get_latest_report(reports_file, report_type, target_person)
    /\ report_list' = NotListed
    /\ UNCHANGED <<reports_file, saved, analyzerVars, renderVars, profileVars, formatterVars, generatorVars, raceVars>>

\* reports = storage.get_reports(report_type, target_person, limit), asked
\* by a caller that holds no result of an earlier query
GetReports ==
    /\ ~query.asked
    /\ ~report_list.asked
    /\ \E report_type \in {NoneStr, WEEKLY}, target_person \in {NoneStr} \cup Persons,
          limit \in SampleLimits :
          report_list' = [asked |-> TRUE, report_type |-> report_type,
                     target_person |-> target_person, limit |-> limit,
                     returned |-> get_reports(reports_file, report_type,
                                              target_person, limit)]
    /\ query' = NotAsked
    /\ latest' = NoReport
    /\ UNCHANGED <<reports_file, saved, analyzerVars, renderVars, profileVars, formatterVars, generatorVars, raceVars>>

NextStorage ==
    \/ SaveReport
    \/ GetLatestReport
    \/ GetReports

StorageSpec == Init /\ [][NextStorage]_vars

\* the text of reports.json is damaged from outside, or the file is made
\* unreadable: json.load or open raises on it from now on
Damage ==
    /\ ~reports_file.broken
    /\ reports_file' = [exists |-> TRUE, reports |-> reports_file.reports, broken |-> TRUE]
    /\ query' = NotAsked
    /\ latest' = NoReport
    /\ report_list' = NotListed
    /\ UNCHANGED <<saved, analyzerVars, renderVars, profileVars, formatterVars, generatorVars, raceVars>>

\* the calls on a ReportStorage whose file can be damaged between them
NextFault ==
    \/ SaveReport
    \/ GetLatestReport
    \/ GetReports
    \/ Damage

FaultSpec == Init /\ [][NextFault]_vars

-----------------------------------------------------------------------------
(* The calls on a ProfileManager and the making of a second one *)

\* manager = ProfileManager(storage_dir)
Construct ==
    /\ last_op.op = "none"
    /\ LET loaded == _load_profiles(profiles_file)
       IN  /\ _profiles' = loaded.profiles
           /\ profiles_file' = loaded.file
    /\ last_op' = Op("construct", <<>>, FALSE, _profiles, profiles_file)
    /\ UNCHANGED <<reopened, analyzerVars, renderVars, storageVars, formatterVars, generatorVars, raceVars>>

\* manager.add_profile(profile)
AddProfile ==
    /\ last_op.op # "none"
    /\ \E profile \in SampleProfiles :
          LET after == add_profile(_profiles, profile)
          IN  /\ _profiles' = after.profiles
              /\ profiles_file' = after.file
              /\ last_op' = Op("add", profile.name, FALSE, _profiles, profiles_file)
    /\ reopened' = NotConstructed
    /\ UNCHANGED <<analyzerVars, renderVars, storageVars, formatterVars, generatorVars, raceVars>>

\* manager.delete_profile(name)
DeleteProfile ==
    /\ last_op.op # "none"
    /\ \E name \in SampleNames :
          LET after == delete_profile(_profiles, profiles_file, name)
          IN  /\ _profiles' = after.profiles
              /\ profiles_file' = after.file
              /\ last_op' = Op("delete", name, after.returned, _profiles, profiles_file)
    /\ reopened' = NotConstructed
    /\ UNCHANGED <<analyzerVars, renderVars, storageVars, formatterVars, generatorVars, raceVars>>

\* manager.reset_to_defaults()
ResetToDefaults ==
    /\ last_op.op # "none"
    /\ LET after == reset_to_defaults(_profiles)
       IN  /\ _profiles' = after.profiles
           /\ profiles_file' = after.file
    /\ last_op' = Op("reset", <<>>, FALSE, _profiles, profiles_file)
    /\ reopened' = NotConstructed
    /\ UNCHANGED <<analyzerVars, renderVars, storageVars, formatterVars, generatorVars, raceVars>>

\* ProfileManager(storage_dir) once more, on the same directory
Reopen ==
    /\ last_op.op # "none"
    /\ ~reopened.constructed
    /\ LET loaded == _load_profiles(profiles_file)
       IN  /\ reopened' = [constructed |-> TRUE, profiles |-> loaded.profiles]
           /\ profiles_file' = loaded.file
    /\ UNCHANGED <<_profiles, last_op, analyzerVars, renderVars, storageVars, formatterVars, generatorVars, raceVars>>

NextProfile ==
    \/ Construct
    \/ AddProfile
    \/ DeleteProfile
    \/ ResetToDefaults
    \/ Reopen

ProfileSpec == Init /\ [][NextProfile]_vars

-----------------------------------------------------------------------------
(* The calls on an OutputFormatter *)

\* formatter = OutputFormatter(max_summary_chars=m); what the last call
\* returned is dropped
NewFormatter ==
    /\ \E m \in SampleMaxSummaryChars : _max_summary_chars' = m
    /\ formatted' = NoFormatCall
    /\ UNCHANGED <<analyzerVars, renderVars, storageVars, profileVars, generatorVars, raceVars>>

\* formatter._truncate_text(text, max_chars)
TruncateText ==
    /\ formatted = NoFormatCall
    /\ \E t \in SampleTexts, m \in SampleMaxChars :
          formatted' = FormatCall("_truncate_text", t, SomeInt(m), _truncate_text(t, m))
    /\ UNCHANGED <<_max_summary_chars, analyzerVars, renderVars, storageVars, profileVars, generatorVars, raceVars>>

\* formatter.format_summary_only(report, max_chars)
FormatSummaryOnly ==
    /\ formatted = NoFormatCall
    /\ \E t \in SampleTexts, m \in {NoneInt} \cup {SomeInt(n) : n \in SampleMaxChars} :
          formatted' = FormatCall("format_summary_only", t, m,
                                  format_summary_only(t, m, _max_summary_chars))
    /\ UNCHANGED <<_max_summary_chars, analyzerVars, renderVars, storageVars, profileVars, generatorVars, raceVars>>

NextFormatter ==
    \/ NewFormatter
    \/ TruncateText
    \/ FormatSummaryOnly

FormatterSpec == Init /\ [][NextFormatter]_vars

-----------------------------------------------------------------------------
(* The calls of generate on one ReportGenerator *)

\* generated = generator.generate(todo_list, target_profile, report_type,
\* save_report=save), with the outcome of the Bedrock call
Generate ==
    /\ Len(saved) < MaxReports
    /\ \E todo_list \in SampleTodoLists, target_person \in Persons, save \in BOOLEAN,
          invoked \in SampleInvoked, now \in CreationTimes :
          LET ended == generate(reports_file, todo_list, target_person, WEEKLY,
                                save, invoked, now)
          IN  /\ reports_file' = ended.file
              /\ saved' = IF ended.report_data # NoReport
                          THEN Append(saved, ended.report_data) ELSE saved
              /\ generation' = GenerateCall(TRUE, todo_list, target_person, WEEKLY, save,
                                            invoked, now, ended, reports_file)
    /\ query' = NotAsked
    /\ latest' = NoReport
    /\ report_list' = NotListed
    /\ UNCHANGED <<analyzerVars, renderVars, profileVars, formatterVars, raceVars>>

NextGenerator == Generate

GeneratorSpec == Init /\ [][NextGenerator]_vars

-----------------------------------------------------------------------------
(* The steps of save_report in two processes *)

\* the other process
Other(w) == CHOOSE v \in Writers : v # w

\* process w enters save_report(report): reports = self._load_all_reports()
\* and reports.append(report.to_dict())
Load(w) ==
    /\ writers[w].pc = "idle"
    /\ \E report \in SampleReportData :
          /\ writers' = [writers EXCEPT ![w] =
                Writer("loaded",
                       Append(_load_all_reports(reports_file), ReportData_to_dict(report)),
                       report, writers[Other(w)].pc)]
          /\ saved' = Append(saved, report)
    /\ UNCHANGED <<reports_file, query, latest, report_list, file_size, written>>
    /\ UNCHANGED <<analyzerVars, renderVars, profileVars, formatterVars, generatorVars>>

\* process w enters _save_all_reports: open(self._reports_file, "w")
\* truncates the file
Open(w) ==
    /\ writers[w].pc = "loaded"
    /\ writers' = [writers EXCEPT ![w].pc = "opened"]
    /\ reports_file' = Truncated
    /\ file_size' = 0
    /\ UNCHANGED <<query, latest, report_list, saved, written>>
    /\ UNCHANGED <<analyzerVars, renderVars, profileVars, formatterVars, generatorVars>>

\* process w leaves the with block: the text that json.dump put into the
\* buffer of its handle is written from offset 0
Dump(w) ==
    /\ writers[w].pc = "opened"
    /\ writers' = [writers EXCEPT ![w].pc = "done"]
    /\ reports_file' = Overlay(writers[w].reports, file_size)
    /\ file_size' = IF JsonSize(writers[w].reports) >= file_size
                    THEN JsonSize(writers[w].reports) ELSE file_size
    /\ written' = Append(written, w)
    /\ UNCHANGED <<query, latest, report_list, saved>>
    /\ UNCHANGED <<analyzerVars, renderVars, profileVars, formatterVars, generatorVars>>

NextRace ==
    \/ \E w \in Writers : Load(w)
    \/ \E w \in Writers : Open(w)
    \/ \E w \in Writers : Dump(w)

RaceSpec == Init /\ [][NextRace]_vars

\* analyze is called again and again; each step of a call is taken once it
\* can be, since the interpreter runs the statement that is ready
FairSpec ==
    /\ Init /\ [][Next]_vars
    /\ WF_vars(ColdStart) /\ WF_vars(BuildLookup) /\ WF_vars(ExactMatch)
    /\ WF_vars(FuzzyMatch) /\ WF_vars(NewTask) /\ WF_vars(DetectRemoved)

-----------------------------------------------------------------------------
(* Vocabulary of the properties *)

\* the entries made for current-side tasks, bucket after bucket
CurrentSide(res) ==
    res.completed_tasks \o res.new_tasks \o res.modified_tasks \o res.unchanged_tasks

\* the number of positions of seq whose element satisfies Test
CountOf(seq, Test(_)) == Cardinality({k \in 1..Len(seq) : Test(seq[k])})

\* the call ran the comparison against a non-empty previous list
WarmCall == previous.present /\ previous.items # <<>>

\* the call took the branch of an absent or empty previous list
ColdCall == ~previous.present \/ previous.items = <<>>

-----------------------------------------------------------------------------
(* C1: when analyze returns, Completed, New, Modified and Unchanged hold    *)
(* together as many entries as current has items, and every (name, status) *)
(* of current has as many entries in them as it has items in current: no   *)
(* current item is dropped and none is entered twice.                      *)
C1_EveryCurrentTaskOnce ==
    pc = "done" =>
        /\ Len(result.completed_tasks) + Len(result.new_tasks)
             + Len(result.modified_tasks) + Len(result.unchanged_tasks) = Len(current)
        /\ \A k \in 1..Len(current) :
              LET SameItem(i) == i = current[k]
                  SameEntry(e) == e.task_name = current[k].task
                                  /\ e.current_status = current[k].status
              IN  CountOf(CurrentSide(result), SameEntry) = CountOf(current, SameItem)

\* a returned report with a completed and an unchanged task out of two
C1_Witness ==
    /\ pc = "done"
    /\ Len(current) = 2
    /\ Len(result.completed_tasks) = 1
    /\ Len(result.unchanged_tasks) = 1

-----------------------------------------------------------------------------
(* C3: cold start.  When analyze returns from a call whose previous is     *)
(* None or has no items, New holds one entry per current task, in order,   *)
(* with the task's name and current status and no previous status, and the *)
(* other four buckets are empty (an empty current gives an empty report).  *)
C3_ColdStartAllNew ==
    (pc = "done" /\ ColdCall) =>
        /\ Len(result.new_tasks) = Len(current)
        /\ \A k \in 1..Len(current) :
              /\ result.new_tasks[k].task_name = current[k].task
              /\ result.new_tasks[k].change_type = "new"
              /\ result.new_tasks[k].current_status = current[k].status
              /\ result.new_tasks[k].previous_status = NoneStr
        /\ result.completed_tasks = <<>>
        /\ result.modified_tasks = <<>>
        /\ result.unchanged_tasks = <<>>
        /\ result.removed_tasks = <<>>

\* a returned cold-start call on two current tasks, previous being None
C3_Witness ==
    /\ pc = "done"
    /\ ~previous.present
    /\ Len(current) = 2
    /\ Len(result.new_tasks) = 2

-----------------------------------------------------------------------------
(* Vocabulary of the properties on one iteration of the loop *)

\* the substrings that mark a status as completed
CompletionKeywords ==
    { <<KAN, RYO>>, <<"d","o","n","e">>, <<"c","l","o","s","e","d">>,
      <<"f","i","n","i","s","h","e","d">>, <<KAN>>, <<SUMI>> }

\* the lower-cased, trimmed text of the status contains a completion keyword
CompletedText(status) ==
    \E kw \in CompletionKeywords : Contains(Strip(Lower(status)), kw)

\* the note of a Completed entry
CompletedNote == <<"U+524D", "U+56DE", "U+304B", "U+3089", "U+5B8C", "U+4E86">>

\* the loop stands before an iteration; every step from here is that iteration
AtIteration == pc = "loop" /\ idx <= Len(current)

\* the iteration that is about to run has no exact-name match
NoExactMatch == \A k \in 1..Len(previous_tasks) : previous_tasks[k].task # current[idx].task

\* the previous names not matched so far
Unmatched == {previous_tasks[k].task : k \in 1..Len(previous_tasks)} \ matched_previous

\* the unmatched previous names of similarity ratio >= 0.6 to the current name
Candidates ==
    {p \in Unmatched : RatioGE(Ratio(current[idx].task, p), [num |-> 6, den |-> 10])}

\* the step is an iteration that matched the current task to a previous one
MatchedStep == AtIteration /\ idx' = idx + 1 /\ result'.new_tasks = result.new_tasks

-----------------------------------------------------------------------------
(* C4: in every iteration that matches the current task to a previous      *)
(* record, Completed gains the entry of the current task, with both        *)
(* statuses and the fixed note, if and only if the previous status is not  *)
(* completed and the current status is; otherwise Completed is unchanged.  *)
(* A status is completed iff its lower-cased, trimmed text contains one of *)
(* the six keywords.                                                       *)
C4_CompletedIff ==
    [][ MatchedStep =>
          LET cur == current[idx]
              prv == prev_item'
              entry == [task_name |-> cur.task, change_type |-> "completed",
                        previous_status |-> prv.status, current_status |-> cur.status,
                        details |-> CompletedNote]
          IN  /\ prv.task \in matched_previous'
              /\ IF ~CompletedText(prv.status) /\ CompletedText(cur.status)
                 THEN result'.completed_tasks = Append(result.completed_tasks, entry)
                 ELSE result'.completed_tasks = result.completed_tasks ]_vars

\* a task in progress whose status became "closed-pending" is Completed
C4_Witness ==
    /\ pc = "done"
    /\ Len(result.completed_tasks) = 1
    /\ result.completed_tasks[1].previous_status = IN_PROGRESS
    /\ result.completed_tasks[1].current_status =
          <<"c","l","o","s","e","d","-","p","e","n","d","i","n","g">>
    /\ result.completed_tasks[1].details = CompletedNote

-----------------------------------------------------------------------------
(* C5: in every iteration that matches the current task to a previous      *)
(* record and does not classify it Completed, the task goes to Modified    *)
(* (with both statuses) iff the two status strings differ as they stand,   *)
(* untrimmed, and to Unchanged iff they are equal; Completed gains nothing.*)
C5_ModifiedIffStatusDiffers ==
    [][ (MatchedStep /\ ~(~CompletedText(prev_item'.status)
                          /\ CompletedText(current[idx].status))) =>
          LET cur == current[idx]
              prv == prev_item'
              modified == [task_name |-> cur.task, change_type |-> "modified",
                           previous_status |-> prv.status, current_status |-> cur.status,
                           details |-> <<>>]
              unchanged == [task_name |-> cur.task, change_type |-> "unchanged",
                            previous_status |-> NoneStr, current_status |-> cur.status,
                            details |-> <<>>]
          IN  /\ result'.completed_tasks = result.completed_tasks
              /\ IF prv.status # cur.status
                 THEN /\ result'.modified_tasks = Append(result.modified_tasks, modified)
                      /\ result'.unchanged_tasks = result.unchanged_tasks
                 ELSE /\ result'.unchanged_tasks = Append(result.unchanged_tasks, unchanged)
                      /\ result'.modified_tasks = result.modified_tasks ]_vars

\* a task that went from one completed wording to another is Modified
C5_Witness ==
    /\ pc = "done"
    /\ Len(result.modified_tasks) = 1
    /\ result.modified_tasks[1].previous_status = COMPLETED
    /\ result.modified_tasks[1].current_status = <<"d","o","n","e">>
    /\ result.completed_tasks = <<>>

-----------------------------------------------------------------------------
(* C2: when analyze returns from a call with a non-empty previous, every   *)
(* record of previous whose name was not matched has its own entry in      *)
(* Removed (as many entries with its name and status as previous has such  *)
(* records), and no matched name is in Removed.                            *)
C2_EveryUnmatchedRecordRemoved ==
    (pc = "done" /\ WarmCall) =>
        \A k \in 1..Len(previous.items) :
            LET r == previous.items[k]
                SameRecord(i) == i = r
                SameName(e) == e.task_name = r.task
                EntryOf(e) == e.task_name = r.task /\ e.previous_status = r.status
            IN  IF r.task \in matched_previous
                THEN CountOf(result.removed_tasks, SameName) = 0
                ELSE CountOf(result.removed_tasks, EntryOf)
                        = CountOf(previous.items, SameRecord)

-----------------------------------------------------------------------------
(* C6: idempotence.  When analyze returns from a call whose previous holds *)
(* the same items as current, every task is in Unchanged, in order, and    *)
(* the other four buckets are empty.                                       *)
C6_SameListsAllUnchanged ==
    (pc = "done" /\ previous.present /\ previous.items = current) =>
        /\ Len(result.unchanged_tasks) = Len(current)
        /\ \A k \in 1..Len(current) :
              result.unchanged_tasks[k].task_name = current[k].task
        /\ result.completed_tasks = <<>>
        /\ result.new_tasks = <<>>
        /\ result.modified_tasks = <<>>
        /\ result.removed_tasks = <<>>

-----------------------------------------------------------------------------
(* C7: when analyze returns, every current name and every unmatched        *)
(* previous name is in the report, and no name occurs twice in the report, *)
(* neither in two buckets nor twice in one.                                *)
C7_NoNameLostOrDuplicated ==
    pc = "done" =>
        LET all == CurrentSide(result) \o result.removed_tasks
        IN  /\ \A k \in 1..Len(current) :
                  \E m \in 1..Len(all) : all[m].task_name = current[k].task
            /\ \A k \in 1..Len(previous_tasks) :
                  previous_tasks[k].task \notin matched_previous =>
                      \E m \in 1..Len(all) : all[m].task_name = previous_tasks[k].task
            /\ \A m, n \in 1..Len(all) : m # n => all[m].task_name # all[n].task_name

(* C7, amended: when analyze returns, every name occurs in Completed, New, *)
(* Modified and Unchanged together exactly as often as it occurs in        *)
(* current, every unmatched previous name occurs exactly once in Removed,  *)
(* Removed holds nothing else, and no name of Removed occurs in another    *)
(* bucket; so when the names of current are pairwise distinct, no name     *)
(* occurs twice in the report.                                             *)
C7_NamesKeptAsOftenAsGiven ==
    pc = "done" =>
        LET all == CurrentSide(result) \o result.removed_tasks
            side == CurrentSide(result)
        IN  /\ \A k \in 1..Len(current) :
                  LET SameTask(i) == i.task = current[k].task
                      SameName(e) == e.task_name = current[k].task
                  IN  CountOf(side, SameName) = CountOf(current, SameTask)
            /\ Len(side) = Len(current)
            /\ \A k \in 1..Len(previous_tasks) :
                  LET SameName(e) == e.task_name = previous_tasks[k].task
                  IN  CountOf(result.removed_tasks, SameName)
                        = IF previous_tasks[k].task \in matched_previous THEN 0 ELSE 1
            /\ \A m \in 1..Len(result.removed_tasks) :
                  /\ \E k \in 1..Len(previous_tasks) :
                        previous_tasks[k].task = result.removed_tasks[m].task_name
                  /\ \A n \in 1..Len(side) :
                        side[n].task_name # result.removed_tasks[m].task_name
            /\ (\A m, n \in 1..Len(current) : m # n => current[m].task # current[n].task)
                  => \A m, n \in 1..Len(all) : m # n => all[m].task_name # all[n].task_name

\* two current tasks of different names, one of them new, and one removed task
C7_Witness ==
    /\ pc = "done"
    /\ Len(current) = 2
    /\ current[1].task # current[2].task
    /\ Len(result.new_tasks) = 1
    /\ Len(result.removed_tasks) = 1

-----------------------------------------------------------------------------
(* C8: rename tolerance.  An iteration whose current name is no key of the *)
(* lookup, while some unmatched previous name has ratio >= 0.6 to it, adds *)
(* nothing to New: it selects one of those names, marks it matched and     *)
(* enters the task under its current name in Completed, Modified or        *)
(* Unchanged.  The matched set only grows during the loop, and no matched  *)
(* name is entered in Removed.                                             *)
C8_RenameTolerance ==
    [][ /\ (AtIteration /\ NoExactMatch /\ Candidates # {}) =>
              /\ idx' = idx + 1
              /\ result'.new_tasks = result.new_tasks
              /\ similar_task' \in Candidates
              /\ matched_previous' = matched_previous \cup {similar_task'}
              /\ prev_item'.task = similar_task'
              /\ change'.task_name = current[idx].task
              /\ change'.current_status = current[idx].status
              /\ change'.change_type \in {"completed", "modified", "unchanged"}
              /\ CurrentSide(result') \in
                    { CurrentSide([result EXCEPT !.completed_tasks = Append(@, change')]),
                      CurrentSide([result EXCEPT !.modified_tasks = Append(@, change')]),
                      CurrentSide([result EXCEPT !.unchanged_tasks = Append(@, change')]) }
              /\ Len(CurrentSide(result')) = Len(CurrentSide(result)) + 1
        /\ AtIteration => matched_previous \subseteq matched_previous'
        /\ (pc = "loop" /\ pc' = "done") =>
              \A m \in 1..Len(result'.removed_tasks) :
                  result'.removed_tasks[m].task_name \notin matched_previous ]_vars

\* a renamed task alone: neither New nor Removed, as in the repository's test
C8_Witness ==
    /\ pc = "done"
    /\ Len(current) = 1
    /\ WarmCall
    /\ Len(previous.items) = 1
    /\ current[1].task # previous.items[1].task
    /\ matched_previous = {previous.items[1].task}
    /\ result.new_tasks = <<>>
    /\ result.removed_tasks = <<>>
    /\ Len(result.unchanged_tasks) = 1
    /\ result.unchanged_tasks[1].task_name = current[1].task

-----------------------------------------------------------------------------
(* C9: similarity threshold.  An iteration without exact match that adds   *)
(* nothing to New has selected an unmatched previous name of ratio >= 0.6; *)
(* an unmatched name of ratio exactly 0.6 is enough to be matched; when    *)
(* every unmatched previous name has ratio < 0.6 the task is entered in    *)
(* New with its current status and no previous status and nothing is       *)
(* marked matched; and every previous name left unmatched by the loop is   *)
(* entered once in Removed.                                                *)
C9_SimilarityThreshold ==
    [][ /\ (AtIteration /\ NoExactMatch) =>
              /\ idx' = idx + 1
              /\ result'.new_tasks = result.new_tasks =>
                    /\ similar_task' \in Unmatched
                    /\ 10 * Ratio(current[idx].task, similar_task').num
                          >= 6 * Ratio(current[idx].task, similar_task').den
              /\ (\E p \in Unmatched :
                     10 * Ratio(current[idx].task, p).num = 6 * Ratio(current[idx].task, p).den)
                    => result'.new_tasks = result.new_tasks
              /\ (\A p \in Unmatched :
                     10 * Ratio(current[idx].task, p).num < 6 * Ratio(current[idx].task, p).den)
                    => /\ result'.new_tasks =
                             Append(result.new_tasks,
                                    [task_name |-> current[idx].task, change_type |-> "new",
                                     previous_status |-> NoneStr,
                                     current_status |-> current[idx].status,
                                     details |-> <<>>])
                       /\ matched_previous' = matched_previous
                       /\ CurrentSide(result') = CurrentSide(
                             [result EXCEPT !.new_tasks = result'.new_tasks])
        /\ (pc = "loop" /\ pc' = "done") =>
              \A p \in Unmatched :
                  LET SameName(e) == e.task_name = p
                  IN  CountOf(result'.removed_tasks, SameName) = 1 ]_vars

\* a previous name of ratio exactly 0.6 has just been matched
C9_Witness ==
    /\ pc = "loop"
    /\ idx = 2
    /\ current[1].task = <<"a","b","c","y","z">>
    /\ similar_task = <<"a","b","c","d","e">>
    /\ 10 * Ratio(current[1].task, similar_task).num = 6 * Ratio(current[1].task, similar_task).den
    /\ matched_previous = {similar_task}
    /\ result.new_tasks = <<>>

-----------------------------------------------------------------------------
(* C10: analyze is total.  No call raises, and every call that was entered *)
(* returns its report.                                                     *)
C10_Total ==
    /\ [](pc # "error")
    /\ [](pc \in {"start", "loop"} => <>(pc = "done"))

\* a call on a previous and a current task of empty status has returned
C10_Witness ==
    /\ pc = "done"
    /\ Len(current) = 1
    /\ current[1].status = <<>>
    /\ WarmCall
    /\ previous.items[1].status = <<>>

-----------------------------------------------------------------------------
(* C11: analyze is pure.  No step of a running call changes current or     *)
(* previous; every call starts on an empty report that is a new object,    *)
(* not the one the caller holds from an earlier call, and with no local    *)
(* left from an earlier call; the report the caller holds is not changed   *)
(* by the later call; and a call on the same two collections as the        *)
(* earlier call returns an equal report.                                   *)
C11_Pure ==
    [][ /\ (pc # "idle" /\ pc' \notin {"idle", "start"}) =>
              (current' = current /\ previous' = previous)
        /\ pc' = "start" =>
              /\ result' = DiffResult
              /\ result_ref' # NoRef
              /\ result_ref' # kept'.ref
              /\ previous_tasks' = <<>> /\ matched_previous' = {} /\ idx' = 0
        /\ (kept.ref # NoRef /\ pc' # "idle") => kept' = kept
        /\ (pc' = "done" /\ kept'.ref # NoRef
                /\ kept'.current = current' /\ kept'.previous = previous') =>
              result' = kept'.report ]_vars

\* an earlier report with a completed and a removed task is still held when
\* the second call on the same collections has returned
C11_Witness ==
    /\ pc = "done"
    /\ kept.ref # NoRef
    /\ kept.current = current
    /\ kept.previous = previous
    /\ Len(current) = 2
    /\ Len(result.completed_tasks) = 1
    /\ Len(result.removed_tasks) = 1
    /\ result_ref # kept.ref

-----------------------------------------------------------------------------
(* Reading a rendered text back *)

\* the pieces of s between the occurrences of the character c
RECURSIVE Split(_, _)
Split(s, c) ==
    IF \A k \in 1..Len(s) : s[k] # c THEN <<s>>
    ELSE LET k == CHOOSE k \in 1..Len(s) : s[k] = c /\ \A j \in 1..(k - 1) : s[j] # c
         IN  <<SubSeq(s, 1, k - 1)>> \o Split(SubSeq(s, k + 1, Len(s)), c)

\* the lines of a text
LinesOf(t) == IF t = <<>> THEN <<>> ELSE Split(t, "\n")

StartsWith(s, prefix) == Len(s) >= Len(prefix) /\ SubSeq(s, 1, Len(prefix)) = prefix

EndsWith(s, suffix) ==
    Len(s) >= Len(suffix) /\ SubSeq(s, Len(s) - Len(suffix) + 1, Len(s)) = suffix

\* the number written by a sequence of decimal digits, -1 if it is none
RECURSIVE ParseNat(_)
ParseNat(d) ==
    IF d = <<>> \/ \E k \in 1..Len(d) : \A n \in 1..10 : Digits[n] # d[k] THEN -1
    ELSE LET last == (CHOOSE n \in 1..10 : Digits[n] = d[Len(d)]) - 1
         IN  IF Len(d) = 1 THEN last ELSE 10 * ParseNat(SubSeq(d, 1, Len(d) - 1)) + last

IsItemLine(line) == StartsWith(line, ITEM_PREFIX)

\* the names listed under the heading h: the item lines between the heading
\* and the next empty line (or the end of the text)
ListedUnder(lines, h) ==
    LET at == CHOOSE k \in 1..Len(lines) : lines[k] = h
        ends == {k \in (at + 1)..Len(lines) : lines[k] = <<>>}
        stop == IF ends = {} THEN Len(lines) + 1
                ELSE CHOOSE k \in ends : \A j \in ends : k <= j
        block == SelectSeq(SubSeq(lines, at + 1, stop - 1), IsItemLine)
    IN  [k \in 1..Len(block) |-> SubSeq(block[k], Len(ITEM_PREFIX) + 1, Len(block[k]))]

NamesOf(tasks) == [k \in 1..Len(tasks) |-> tasks[k].task_name]

\* the bucket tasks is listed in full under the heading h, or has no heading
ListedInFull(lines, h, tasks) ==
    LET Is(line) == line = h
    IN  IF tasks = <<>> THEN CountOf(lines, Is) = 0
        ELSE CountOf(lines, Is) = 1 /\ ListedUnder(lines, h) = NamesOf(tasks)

-----------------------------------------------------------------------------
(* C12: the text of to_text lists every task of Completed, New, Modified   *)
(* and Removed under the heading of its bucket, and a bucket without tasks *)
(* has no heading.  Of the N tasks of Unchanged it lists the first 5 (all  *)
(* if N <= 5) under a heading that gives N, followed by one line that      *)
(* gives N - 5 exactly when N > 5; that heading is absent when N = 0.      *)
C12_UnchangedCapped ==
    text # NotReturned =>
        LET lines == LinesOf(text)
            N == Len(diff.unchanged_tasks)
            IsHeading(line) == StartsWith(line, H_UNCHANGED)
            IsMore(line) == StartsWith(line, MORE)
        IN  /\ ListedInFull(lines, H_COMPLETED, diff.completed_tasks)
            /\ ListedInFull(lines, H_NEW, diff.new_tasks)
            /\ ListedInFull(lines, H_MODIFIED, diff.modified_tasks)
            /\ ListedInFull(lines, H_REMOVED, diff.removed_tasks)
            /\ CountOf(lines, IsHeading) = IF N = 0 THEN 0 ELSE 1
            /\ CountOf(lines, IsMore) = IF N > 5 THEN 1 ELSE 0
            /\ N > 0 =>
                  LET at == CHOOSE k \in 1..Len(lines) : IsHeading(lines[k])
                      heading == lines[at]
                      below == SubSeq(lines, at + 1, Len(lines))
                      listed == SelectSeq(below, IsItemLine)
                  IN  /\ heading = H_UNCHANGED \o <<"(">>
                                     \o SubSeq(heading, Len(H_UNCHANGED) + 2, Len(heading) - 2)
                                     \o KEN \o <<")">>
                      /\ ParseNat(SubSeq(heading, Len(H_UNCHANGED) + 2, Len(heading) - 2)) = N
                      /\ Len(listed) <= 5
                      /\ ListedUnder(lines, heading)
                            = NamesOf(SubSeq(diff.unchanged_tasks, 1, IF N < 5 THEN N ELSE 5))
                      /\ Len(below) = Len(listed) + (IF N > 5 THEN 1 ELSE 0)
                      /\ N > 5 =>
                            LET more == lines[Len(lines)]
                            IN  /\ more = MORE \o SubSeq(more, Len(MORE) + 1, Len(more) - 1) \o KEN
                                /\ ParseNat(SubSeq(more, Len(MORE) + 1, Len(more) - 1)) = N - 5

\* a text with all five headings, 6 unchanged tasks and the line for 1 more
C12_Witness ==
    /\ text # NotReturned
    /\ Len(diff.unchanged_tasks) = 6
    /\ diff.completed_tasks # <<>> /\ diff.new_tasks # <<>>
    /\ diff.modified_tasks # <<>> /\ diff.removed_tasks # <<>>
    /\ LinesOf(text)[Len(LinesOf(text))] = MORE \o <<"1">> \o KEN

-----------------------------------------------------------------------------
(* C13: the summary of get_summary has one part per bucket that holds      *)
(* tasks and none for a bucket without, in the order Completed, New,       *)
(* Modified, Removed, Unchanged, joined by the full-width comma; each part *)
(* is the label of its bucket, the number of its tasks and the counter     *)
(* word; a report without any task gives the no-changes text.              *)
C13_SummaryCounts ==
    summary # NotReturned =>
        LET buckets == << <<L_COMPLETED, diff.completed_tasks>>, <<L_NEW, diff.new_tasks>>,
                          <<L_MODIFIED, diff.modified_tasks>>,
                          <<L_REMOVED, diff.removed_tasks>>,
                          <<L_UNCHANGED, diff.unchanged_tasks>> >>
            NonEmpty(b) == b[2] # <<>>
            expected == SelectSeq(buckets, NonEmpty)
            parts == Split(summary, COMMA[1])
        IN  IF expected = <<>> THEN summary = NO_CHANGES
            ELSE /\ Len(parts) = Len(expected)
                 /\ \A k \in 1..Len(parts) :
                       LET label == expected[k][1]
                           digits == SubSeq(parts[k], Len(label) + 1, Len(parts[k]) - 1)
                       IN  /\ parts[k] = label \o digits \o KEN
                           /\ ParseNat(digits) = Len(expected[k][2])

\* a summary of three parts, the last for 6 unchanged tasks
C13_Witness ==
    /\ summary # NotReturned
    /\ diff.completed_tasks # <<>> /\ diff.new_tasks = <<>>
    /\ diff.modified_tasks = <<>> /\ diff.removed_tasks # <<>>
    /\ Len(diff.unchanged_tasks) = 6
    /\ Len(Split(summary, COMMA[1])) = 3
    /\ EndsWith(summary, L_UNCHANGED \o <<"6">> \o KEN)

-----------------------------------------------------------------------------
(* What get_latest_report has to return, for a reading Given of which      *)
(* arguments are filters: None exactly when no stored report satisfies     *)
(* every given filter; otherwise a stored report that satisfies them and   *)
(* whose created_at no stored report satisfying them exceeds; without a    *)
(* filter and after a single save, the saved report.                       *)
LatestIsRight(Given(_)) ==
    LET stored == [k \in 1..Len(reports_file.reports) |->
                      ReportData_from_dict(reports_file.reports[k])]
        Satisfies(r) ==
            /\ Given(query.report_type) => r.report_type = query.report_type
            /\ Given(query.target_person) => r.target_person = query.target_person
        matching == SelectSeq(stored, Satisfies)
    IN  /\ (latest = NoReport) <=> (matching = <<>>)
        /\ latest # NoReport =>
              /\ \E k \in 1..Len(matching) : matching[k] = latest
              /\ \A k \in 1..Len(matching) :
                    ~StrLess(latest.created_at, matching[k].created_at)
        /\ (Len(stored) = 1 /\ ~Given(query.report_type) /\ ~Given(query.target_person))
              => latest = stored[1]

(* C14: after any sequence of save_report calls, get_latest_report returns *)
(* the stored report of greatest created_at among those satisfying every   *)
(* filter passed to it (every argument other than None), and None iff      *)
(* there is none.                                                          *)
C14_LatestMatchingReport ==
    query.asked => LET Given(f) == f # NoneStr IN LatestIsRight(Given)

(* C14, amended: the same, where a filter is an argument that is a         *)
(* non-empty string; None and the empty string filter nothing.  The        *)
(* created_at values are compared as strings.                              *)
C14_LatestForNonEmptyFilters ==
    query.asked => LET Given(f) == f # NoneStr /\ f # <<>> IN LatestIsRight(Given)

\* of two weekly reports the one created at "2" is returned, not the one
\* created at "10", and a monthly report is passed over
C14_Witness ==
    /\ query.asked
    /\ query.report_type = WEEKLY
    /\ query.target_person = NoneStr
    /\ Len(reports_file.reports) = 3
    /\ reports_file.reports[1].created_at = <<"1", "0">>
    /\ reports_file.reports[1].report_type = WEEKLY
    /\ reports_file.reports[2].created_at = <<"2">>
    /\ reports_file.reports[2].report_type = WEEKLY
    /\ reports_file.reports[3].report_type = MONTHLY
    /\ latest = ReportData_from_dict(reports_file.reports[2])

-----------------------------------------------------------------------------
(* The names and the default values of the four default profiles *)

DefaultNames == <<KACHOU, SHITSUCHOU, BUCHOU, MEMBER>>

\* profiles holds the four default profiles and nothing else
HoldsTheDefaults(profiles) ==
    /\ Len(profiles) = 4
    /\ \A k \in 1..4 :
          /\ profiles[k].key = DefaultNames[k]
          /\ get_profile(profiles, DefaultNames[k]) = DEFAULT_PROFILES[k]
          /\ profiles[k].value.name = DefaultNames[k]
          /\ profiles[k].value.role = DefaultNames[k]
    /\ get_profile(profiles, KACHOU).summary_max_chars = 300
    /\ get_profile(profiles, SHITSUCHOU).summary_max_chars = 400
    /\ get_profile(profiles, BUCHOU).summary_max_chars = 250
    /\ get_profile(profiles, MEMBER).summary_max_chars = 500
    /\ get_profile(profiles, KACHOU).focus = FOCUS_KACHOU
    /\ get_profile(profiles, BUCHOU).detail_level = LOW
    /\ get_profile(profiles, MEMBER).detail_level = HIGH

-----------------------------------------------------------------------------
(* C15: profile persistence.  A second ProfileManager made on the storage  *)
(* directory after any calls of add_profile, delete_profile and            *)
(* reset_to_defaults on the first one holds the same profiles as the first *)
(* one: the same names in the same order with the same field values.       *)
C15_SecondManagerHoldsTheSame ==
    reopened.constructed => reopened.profiles = _profiles

\* the second manager is made after a profile was added, a default was
\* replaced under its name and another default was deleted
C15_Witness ==
    /\ reopened.constructed
    /\ ItemHas(_profiles, CUSTOM)
    /\ ItemHas(_profiles, KACHOU)
    /\ get_profile(_profiles, KACHOU).preferred_format = PLAIN_TEXT
    /\ ~ItemHas(_profiles, BUCHOU)
    /\ get_profile(reopened.profiles, KACHOU).summary_max_chars = 0

-----------------------------------------------------------------------------
(* C16: delete_profile(name) returns True exactly when the manager held a  *)
(* profile of that name; then get_profile(name) is None afterwards and     *)
(* every other profile is as before; when it returns False the profiles in *)
(* memory and the profiles file are as before.                             *)
C16_DeleteProfile ==
    last_op.op = "delete" =>
        LET name == last_op.name
            before == last_op.before
            others == ({before[k].key : k \in 1..Len(before)}
                        \cup {_profiles[k].key : k \in 1..Len(_profiles)}) \ {name}
        IN  /\ last_op.returned <=> (get_profile(before, name) # NoProfile)
            /\ last_op.returned =>
                  /\ get_profile(_profiles, name) = NoProfile
                  /\ \A other \in others :
                        get_profile(_profiles, other) = get_profile(before, other)
                  /\ Len(_profiles) = Len(before) - 1
            /\ ~last_op.returned =>
                  /\ _profiles = before
                  /\ profiles_file = last_op.file_before

\* the added profile has been deleted and the four defaults are still held
C16_Witness ==
    /\ last_op.op = "delete"
    /\ last_op.name = CUSTOM
    /\ last_op.returned
    /\ Len(last_op.before) = 5
    /\ Len(_profiles) = 4

-----------------------------------------------------------------------------
(* C17: after reset_to_defaults the manager holds exactly the four default *)
(* profiles with their default field values, whatever add_profile and      *)
(* delete_profile calls came before.                                       *)
C17_ResetToDefaults ==
    last_op.op = "reset" => HoldsTheDefaults(_profiles)

\* reset from a state with an added profile, a replaced default and a
\* deleted default
C17_Witness ==
    /\ last_op.op = "reset"
    /\ ItemHas(last_op.before, CUSTOM)
    /\ ~ItemHas(last_op.before, SHITSUCHOU)
    /\ get_profile(last_op.before, KACHOU) # NoProfile
    /\ get_profile(last_op.before, KACHOU).focus = QUALITY
    /\ Len(_profiles) = 4

-----------------------------------------------------------------------------
(* C18: a ProfileManager made on a storage directory without profiles file *)
(* holds exactly the four default profiles and has written them to the     *)
(* profiles file.                                                          *)
C18_DefaultsOnNewDirectory ==
    (last_op.op = "construct" /\ ~last_op.file_before.exists) =>
        /\ HoldsTheDefaults(_profiles)
        /\ profiles_file.exists
        /\ Len(profiles_file.data) = 4
        /\ \A k \in 1..4 :
              /\ profiles_file.data[k].key = DefaultNames[k]
              /\ TargetProfile_from_dict(profiles_file.data[k].value) = _profiles[k].value
              /\ DOMAIN profiles_file.data[k].value =
                    {"name", "role", "focus", "description", "summary_max_chars",
                     "detail_level", "preferred_format"}

\* the manager has just been made on the empty directory
C18_Witness ==
    /\ last_op.op = "construct"
    /\ ~last_op.file_before.exists
    /\ last_op.before = <<>>
    /\ profiles_file.exists
    /\ Len(_profiles) = 4

-----------------------------------------------------------------------------
(* Vocabulary of the claims about the truncation *)

\* the limit a call cuts at: max_chars for _truncate_text; for
\* format_summary_only the max_chars given unless it is None or 0, and the
\* formatter's own limit then
LimitOf(call) ==
    IF call.op = "_truncate_text" THEN call.max_chars.value
    ELSE IF call.max_chars.present /\ call.max_chars.value # 0
         THEN call.max_chars.value
         ELSE _max_summary_chars

\* the number of characters text[:chars] keeps
KeptBy(long_text, chars) ==
    IF chars >= 0 THEN chars
    ELSE IF Len(long_text) + chars > 0 THEN Len(long_text) + chars ELSE 0

\* r is a prefix of t, or a prefix of t followed by three dots
PrefixMaybeDots(r, t) ==
    \E k \in 0..Len(t) :
        \/ r = SubSeq(t, 1, k)
        \/ r = SubSeq(t, 1, k) \o <<".", ".", ".">>

IsCall == formatted.op \in {"_truncate_text", "format_summary_only"}

-----------------------------------------------------------------------------
(* C19, as stated: _truncate_text(text, max_chars) returns text unchanged  *)
(* when len(text) <= max_chars and otherwise a result of at most           *)
(* max_chars + 3 characters that begins with a prefix of text;             *)
(* format_summary_only keeps to max_chars + 3 for the max_chars it is      *)
(* given.  This does not hold: a negative max_chars and, for               *)
(* format_summary_only, max_chars = 0 give longer results.                 *)
C19_BoundForGivenMaxChars ==
    (IsCall /\ formatted.max_chars.present) =>
        LET m == formatted.max_chars.value
            t == formatted.text
            r == formatted.returned
        IN  IF formatted.op = "_truncate_text"
            THEN /\ Len(t) <= m => r = t
                 /\ Len(t) > m => Len(r) <= m + 3 /\ PrefixMaybeDots(r, t)
            ELSE Len(r) <= m + 3

(* C19, amended: with the limit being max_chars for _truncate_text and,    *)
(* for format_summary_only, max_chars unless it is None or 0 and the       *)
(* formatter's max_summary_chars then: a text no longer than the limit is  *)
(* returned unchanged; a longer text gives a prefix of text, possibly      *)
(* followed by '...', of at most limit + 3 characters when the limit is    *)
(* not negative and of at most max(0, len(text) + limit) + 3 characters    *)
(* when it is negative.                                                    *)
C19_BoundForTheLimit ==
    IsCall =>
        LET chars == LimitOf(formatted)
            t == formatted.text
            r == formatted.returned
        IN  /\ Len(t) <= chars => r = t
            /\ Len(t) > chars =>
                  /\ Len(r) <= KeptBy(t, chars) + 3
                  /\ PrefixMaybeDots(r, t)

\* a text longer than a positive max_chars was cut to max_chars characters
\* and got the three dots
C19_Witness ==
    /\ formatted.op = "_truncate_text"
    /\ formatted.max_chars.value > 0
    /\ Len(formatted.text) > formatted.max_chars.value
    /\ Len(formatted.returned) = formatted.max_chars.value + 3
    /\ formatted.returned # formatted.text

-----------------------------------------------------------------------------
(* C20, as stated: for every text longer than max_chars the result of      *)
(* _truncate_text ends with the period U+3002 or with '...'.  This does    *)
(* not hold: the cut is also made after U+FF0E and after '.'.              *)
C20_EndsWithKutenOrDots ==
    (formatted.op = "_truncate_text"
        /\ Len(formatted.text) > formatted.max_chars.value) =>
        \/ EndsWith(formatted.returned, <<"U+3002">>)
        \/ EndsWith(formatted.returned, <<".", ".", ".">>)

(* C20, amended: for every text longer than max_chars the result of        *)
(* _truncate_text ends with one of the periods U+3002, U+FF0E and '.', or  *)
(* with '...'; for max_chars below -1 it can also be the empty string.     *)
C20_EndsWithAPeriodOrDots ==
    (formatted.op = "_truncate_text"
        /\ Len(formatted.text) > formatted.max_chars.value) =>
        \/ EndsWith(formatted.returned, <<"U+3002">>)
        \/ EndsWith(formatted.returned, <<"U+FF0E">>)
        \/ EndsWith(formatted.returned, <<".">>)
        \/ formatted.max_chars.value < -1 /\ formatted.returned = <<>>

\* a text was cut after a period that lies past 70% of max_chars
C20_Witness ==
    /\ formatted.op = "_truncate_text"
    /\ formatted.max_chars.value > 0
    /\ Len(formatted.text) > formatted.max_chars.value
    /\ EndsWith(formatted.returned, <<"U+3002">>)
    /\ Len(formatted.returned) = formatted.max_chars.value
    /\ Contains(formatted.text, <<"a">>)

-----------------------------------------------------------------------------
(* Vocabulary of the claims about the matching *)

\* the keys of the previous lookup
LookupKeys == {previous_tasks[k].task : k \in 1..Len(previous_tasks)}

\* the record the lookup holds under the key name
LookupRecord(name) ==
    previous_tasks[CHOOSE k \in 1..Len(previous_tasks) : previous_tasks[k].task = name]

\* the entry e is what a comparison of the current item with the previous
\* record rec gives
ComparedWith(e, rec, item) ==
    /\ e.task_name = item.task
    /\ e.current_status = item.status
    /\ e.change_type \in {"completed", "modified", "unchanged"}
    /\ e.change_type = "unchanged" => rec.status = item.status
    /\ e.change_type \in {"completed", "modified"} => e.previous_status = rec.status

-----------------------------------------------------------------------------
(* C21: exact match takes precedence.  An iteration whose current name is  *)
(* a key of the previous lookup compares the task with the record under    *)
(* that key, runs no fuzzy search, adds the name to the matched set and    *)
(* enters the task in Completed, Modified or Unchanged, at every position  *)
(* of current and also when the name was matched before; and no name of a  *)
(* current task that is a key of the lookup is entered in Removed.         *)
C21_ExactMatchFirst ==
    [][ /\ (AtIteration /\ current[idx].task \in LookupKeys) =>
              /\ idx' = idx + 1
              /\ prev_item' = LookupRecord(current[idx].task)
              /\ similar_task' = similar_task
              /\ matched_previous' = matched_previous \cup {current[idx].task}
              /\ change' = CurrentSide(result')[
                     CHOOSE k \in 1..Len(CurrentSide(result')) :
                         CurrentSide(result')[k] = change']
              /\ ComparedWith(change', LookupRecord(current[idx].task), current[idx])
              /\ result'.new_tasks = result.new_tasks
              /\ Len(CurrentSide(result')) = Len(CurrentSide(result)) + 1
        /\ (pc = "loop" /\ pc' = "done") =>
              \A k \in 1..Len(current) :
                  current[k].task \in LookupKeys =>
                      \A m \in 1..Len(result'.removed_tasks) :
                          result'.removed_tasks[m].task_name # current[k].task ]_vars

\* the second current task carries exactly the previous name that the first
\* one took by similarity: it is compared with that record all the same
C21_Witness ==
    /\ pc = "done"
    /\ Len(current) = 2
    /\ WarmCall
    /\ current[1].task \notin LookupKeys
    /\ current[2].task \in LookupKeys
    /\ matched_previous = {current[2].task}
    /\ prev_item = LookupRecord(current[2].task)
    /\ result.new_tasks = <<>>
    /\ result.removed_tasks = <<>>
    /\ Len(result.unchanged_tasks) = 2

-----------------------------------------------------------------------------
(* C22: best-candidate selection.  In an iteration without exact match the *)
(* fuzzy fallback returns None when no unmatched previous name has ratio   *)
(* >= 0.6; otherwise it returns one of those names, no other of them has a *)
(* higher ratio to the current name, and every other of them with the same *)
(* ratio first occurs later in the previous list.                          *)
C22_BestCandidateFirst ==
    [][ (AtIteration /\ NoExactMatch) =>
            LET name == current[idx].task
                FirstAt(p) == CHOOSE k \in 1..Len(previous.items) :
                                  /\ previous.items[k].task = p
                                  /\ \A j \in 1..(k - 1) : previous.items[j].task # p
                Higher(p, q) == Ratio(name, p).num * Ratio(name, q).den
                                   > Ratio(name, q).num * Ratio(name, p).den
            IN  IF Candidates = {}
                THEN similar_task' = NoneStr
                ELSE /\ similar_task' \in Candidates
                     /\ \A p \in Candidates :
                           /\ ~Higher(p, similar_task')
                           /\ (p # similar_task' /\ ~Higher(similar_task', p))
                                 => FirstAt(similar_task') < FirstAt(p) ]_vars

\* two previous names have the same ratio 0.6 to the current name; the one
\* that comes first in previous has just been taken
C22_Witness ==
    /\ pc = "loop"
    /\ idx = 2
    /\ WarmCall
    /\ Len(previous.items) = 2
    /\ current[1].task = <<"a","b","c","y","z">>
    /\ previous.items[1].task = <<"a","b","c","d","x">>
    /\ previous.items[2].task = <<"a","b","c","d","e">>
    /\ Ratio(current[1].task, previous.items[1].task)
          = Ratio(current[1].task, previous.items[2].task)
    /\ similar_task = previous.items[1].task
    /\ matched_previous = {similar_task}

-----------------------------------------------------------------------------
(* C23: greedy single pass.  Every iteration handles the next task of      *)
(* current, in input order, and makes one entry under its name; the        *)
(* matched set only grows; an iteration without exact match never selects  *)
(* a previous name that is in the matched set, whatever its ratio: it      *)
(* selects a name that was unmatched or enters the task in New.            *)
C23_GreedySinglePass ==
    [][ /\ AtIteration =>
              /\ idx' = idx + 1
              /\ matched_previous \subseteq matched_previous'
              /\ Len(CurrentSide(result')) = idx
              /\ \E k \in 1..Len(CurrentSide(result')) :
                    /\ CurrentSide(result')[k].task_name = current[idx].task
                    /\ CurrentSide(result')[k].current_status = current[idx].status
        /\ (AtIteration /\ NoExactMatch) =>
              /\ similar_task' \notin matched_previous
              /\ \/ /\ similar_task' \in Unmatched
                    /\ matched_previous' = matched_previous \cup {similar_task'}
                    /\ result'.new_tasks = result.new_tasks
                 \/ /\ similar_task' = NoneStr
                    /\ matched_previous' = matched_previous
                    /\ Len(result'.new_tasks) = Len(result.new_tasks) + 1
                    /\ result'.new_tasks[Len(result'.new_tasks)].task_name
                          = current[idx].task ]_vars

\* the first current task took the only previous name at ratio 0.6; the
\* second one, of ratio 0.8 to that name, is New
C23_Witness ==
    /\ pc = "done"
    /\ Len(current) = 2
    /\ WarmCall
    /\ Len(previous.items) = 1
    /\ LET p == previous.items[1].task
       IN  /\ current[1].task # p
           /\ current[2].task # p
           /\ Ratio(current[2].task, p).num * Ratio(current[1].task, p).den
                 > Ratio(current[1].task, p).num * Ratio(current[2].task, p).den
           /\ matched_previous = {p}
    /\ Len(result.new_tasks) = 1
    /\ result.new_tasks[1].task_name = current[2].task
    /\ Len(result.unchanged_tasks) = 1
    /\ result.unchanged_tasks[1].task_name = current[1].task
    /\ result.removed_tasks = <<>>

-----------------------------------------------------------------------------
(* C24: one-to-one matching.  When analyze returns from a call with a      *)
(* non-empty previous, Completed, Modified and Unchanged together hold at  *)
(* most as many entries as previous has distinct names.  This does not     *)
(* hold: the exact-match branch takes a previous name again that an        *)
(* earlier current task was matched to.                                    *)
C24_OneToOne ==
    (pc = "done" /\ WarmCall) =>
        Len(result.completed_tasks) + Len(result.modified_tasks)
              + Len(result.unchanged_tasks)
           <= Cardinality({previous.items[k].task : k \in 1..Len(previous.items)})

-----------------------------------------------------------------------------
(* C25: duplicate names in previous.  During the loop the lookup holds,    *)
(* for every name of previous, the last record of that name and nothing    *)
(* else; an iteration that matches the current task to a previous name     *)
(* compares it with the last record of that name; and when the loop is     *)
(* over, a name of previous has at most one entry in Removed, which        *)
(* carries the status of its last record.                                  *)
C25_LastRecordOfAName ==
    [][ LET LastRecord(name) ==
                previous.items[CHOOSE k \in 1..Len(previous.items) :
                                   /\ previous.items[k].task = name
                                   /\ \A j \in (k + 1)..Len(previous.items) :
                                         previous.items[j].task # name]
            Names == {previous.items[k].task : k \in 1..Len(previous.items)}
        IN  /\ pc = "loop" =>
                  /\ LookupKeys = Names
                  /\ Len(previous_tasks) = Cardinality(Names)
                  /\ \A name \in Names : LookupRecord(name) = LastRecord(name)
            /\ MatchedStep =>
                  /\ prev_item'.task \in Names
                  /\ prev_item' = LastRecord(prev_item'.task)
                  /\ ComparedWith(change', LastRecord(prev_item'.task), current[idx])
            /\ (pc = "loop" /\ pc' = "done") =>
                  \A name \in Names :
                      LET SameName(e) == e.task_name = name
                      IN  /\ CountOf(result'.removed_tasks, SameName) <= 1
                          /\ \A m \in 1..Len(result'.removed_tasks) :
                                SameName(result'.removed_tasks[m]) =>
                                    result'.removed_tasks[m].previous_status
                                       = LastRecord(name).status ]_vars

\* previous holds a name twice, completed first and in progress last; the
\* current task of that name, completed, was compared with the last record
C25_Witness ==
    /\ pc = "done"
    /\ WarmCall
    /\ Len(previous.items) = 2
    /\ previous.items[1].task = previous.items[2].task
    /\ previous.items[1].status = COMPLETED
    /\ previous.items[2].status = IN_PROGRESS
    /\ Len(current) = 1
    /\ current[1] = previous.items[1]
    /\ prev_item = previous.items[2]
    /\ Len(result.completed_tasks) = 1
    /\ result.completed_tasks[1].previous_status = IN_PROGRESS
    /\ result.unchanged_tasks = <<>>
    /\ result.removed_tasks = <<>>

-----------------------------------------------------------------------------
(* C26: the classification does not depend on how the match was found.  In *)
(* every iteration that matches the current task to a previous record, by  *)
(* its exact name or by similarity, the entry made is what _compare_items  *)
(* returns for the two records with task_renamed true and also what it     *)
(* returns with task_renamed false (kind, statuses and note), and it       *)
(* carries the name of the current task.                                   *)
C26_RenamedFlagUnused ==
    [][ MatchedStep =>
            /\ change' = _compare_items(prev_item', current[idx], TRUE)
            /\ change' = _compare_items(prev_item', current[idx], FALSE)
            /\ change'.task_name = current[idx].task
            /\ \E k \in 1..Len(CurrentSide(result')) : CurrentSide(result')[k] = change'
      ]_vars

\* a task matched by similarity to a record of another name was found
\* completed and is entered under its current name, with the note
C26_Witness ==
    /\ pc = "done"
    /\ Len(current) = 1
    /\ similar_task # NoneStr
    /\ similar_task = prev_item.task
    /\ prev_item.task # current[1].task
    /\ change.change_type = "completed"
    /\ change.task_name = current[1].task
    /\ change.previous_status = prev_item.status
    /\ change.details = CompletedNote
    /\ result.completed_tasks = <<change>>

-----------------------------------------------------------------------------
(* C27: report storage is append-only.  Every save_report leaves a file    *)
(* that can be read, with one entry more than before, the saved report, at *)
(* the end and every earlier entry as it was; after every step the file    *)
(* holds exactly the reports that were saved, in the order they were saved *)
(* in; get_latest_report and get_reports leave the file as it is.          *)
C27_AppendOnly ==
    [][ /\ saved' # saved =>
              /\ saved' = Append(saved, saved'[Len(saved')])
              /\ reports_file'.exists /\ ~reports_file'.broken
              /\ Len(reports_file'.reports) = Len(reports_file.reports) + 1
              /\ \A k \in 1..Len(reports_file.reports) :
                    reports_file'.reports[k] = reports_file.reports[k]
              /\ ReportData_from_dict(reports_file'.reports[Len(reports_file'.reports)])
                    = saved'[Len(saved')]
        /\ (query'.asked \/ report_list'.asked) => reports_file' = reports_file
        /\ Len(reports_file'.reports) = Len(saved')
        /\ \A k \in 1..Len(saved') :
              ReportData_from_dict(reports_file'.reports[k]) = saved'[k] ]_vars

\* three reports were saved, the second one with the smallest creation time,
\* and the list of all reports has been asked for
C27_Witness ==
    /\ Len(saved) = 3
    /\ saved[1].created_at = <<"2">>
    /\ saved[2].created_at = <<"1", "0">>
    /\ saved[3].created_at = <<"2">>
    /\ saved[1] # saved[3]
    /\ reports_file.exists
    /\ [k \in 1..3 |-> ReportData_from_dict(reports_file.reports[k])] = saved
    /\ report_list.asked
    /\ report_list.limit = DEFAULT_LIMIT
    /\ Len(report_list.returned) = 3

-----------------------------------------------------------------------------
-----------------------------------------------------------------------------
(* C28: generate persists a report only after the Bedrock call returned    *)
(* and only when save_report is true.  After a generate call: if the       *)
(* Bedrock call ended with ClientError, which BedrockClient raises as      *)
(* BedrockError, generate raised ReportGenerationError and the reports     *)
(* file is as before the call; if generate raised anything, or save_report *)
(* was false, the file is as before the call; if the Bedrock call returned *)
(* and save_report was true, generate raised nothing and the file holds    *)
(* the reports it held before, followed by exactly one new report, made    *)
(* from the arguments and the sections of the response.                    *)
C28_PersistsOnlyOnSuccess ==
    generation.called =>
        LET before == _load_all_reports(generation.store_before)
            after == _load_all_reports(reports_file)
        IN  /\ generation.invoked.kind = "ClientError" =>
                  /\ generation.raised = "ReportGenerationError"
                  /\ reports_file = generation.store_before
            /\ generation.raised # "" => reports_file = generation.store_before
            /\ ~generation.save_report => reports_file = generation.store_before
            /\ (generation.invoked.kind = "returned" /\ generation.save_report) =>
                  /\ generation.raised = ""
                  /\ Len(after) = Len(before) + 1
                  /\ SubSeq(after, 1, Len(before)) = before
                  /\ LET stored == ReportData_from_dict(after[Len(after)])
                     IN  /\ stored.report_type = generation.report_type
                         /\ stored.target_person = generation.target_person
                         /\ stored.created_at = generation.now
                         /\ stored.executive_summary = generation.returned.executive_summary
                         /\ stored.source_file = generation.todo_list.source_file

\* a generate call with save_report true whose Bedrock call failed, on a
\* store that two earlier calls have saved to
C28_Witness ==
    /\ generation.called
    /\ generation.save_report
    /\ generation.invoked.kind = "ClientError"
    /\ generation.raised = "ReportGenerationError"
    /\ Len(saved) = 2
    /\ Len(reports_file.reports) = 2

-----------------------------------------------------------------------------
(* C30: last write wins when two save_report calls interleave.  Once both  *)
(* calls are done: if both loaded the file before either opened it for     *)
(* writing, the file is the list that the process whose write came last    *)
(* had built, and it can be read; if one call began after the other was    *)
(* done, the file holds both reports, in the order of the calls.           *)
C30_LastWriteWins ==
    (\A w \in Writers : writers[w].pc = "done") =>
        /\ (\A w \in Writers : writers[w].other_at_load \in {"idle", "loaded"}) =>
              /\ reports_file.exists
              /\ ~reports_file.broken
              /\ reports_file.reports = writers[written[2]].reports
              /\ Len(_load_all_reports(reports_file)) = 1
        /\ (\E w \in Writers : writers[w].other_at_load = "done") =>
              /\ reports_file.exists
              /\ ~reports_file.broken
              /\ reports_file.reports =
                    << ReportData_to_dict(writers[written[1]].report),
                       ReportData_to_dict(writers[written[2]].report) >>

====
